---- MODULE Spec2Model ----
(***************************************************************************)
(* SentryFlow event pipeline: the orchestrator (core.Manager.run), the     *)
(* non-blocking fan-out stage (fanOutAPIEvents), the exporters, the        *)
(* receivers started by receiver.Init, the signal handlers installed by    *)
(* Manager.setupSignalHandler and the configuration watcher.               *)
(*                                                                         *)
(* Channels are sequences, goroutines are program counters, contexts are   *)
(* numbered scopes (0 is m.Ctx, s >= 1 is the s-th receiversCtx).          *)
(***************************************************************************)
EXTENDS Integers, Sequences, FiniteSets, TLC

\* ---------------------------------------------------------------- bounds
\* capacity of ApiEvents, GrpcEvents and HttpEvents (10240 in the program)
QueueCap == 2
\* number of events the sources produce in one run
MaxEvents == 3
\* number of configuration-change events in one run
MaxReloads == 1
\* number of termination signals in one run
MaxSignals == 2
\* pull-subscription callbacks in flight (MaxOutstandingMessages)
MaxCallbacks == 2
\* webhook targets of the HTTP exporter
MaxWebhooks == 2
\* pull-subscription messages whose payload cannot be decoded, in one run
MaxUndecodable == 1
\* client streams that subscribe to the gRPC exporter in one run
MaxSubs == 2
\* capacity of a subscriber's buffer
SubCap == 1

\* ---------------------------------------------------------- configuration
\* receivers that run as a task registered with the wait group
TaskKinds == {"kong", "gcp", "f5", "mesh"}

\* receivers that only log a line in receiver.Init (passive ingestion)
LogOnlyKinds == {"web"}

\* one configuration: the configured receiver and the gateway filter tag
Configs ==
  { [recv |-> "kong", tag |-> 1], [recv |-> "gcp", tag |-> 1],
    [recv |-> "f5", tag |-> 1], [recv |-> "mesh", tag |-> 1],
    [recv |-> "mesh", tag |-> 2], [recv |-> "web", tag |-> 1],
    [recv |-> "bad", tag |-> 1] }

VARIABLES
  mgrPc,        \* position of Manager.run
  cfg,          \* configuration of the latest receiver.Init
  httpEnabled,  \* cfg.Exporter.HTTP.Enabled
  cancelled,    \* contexts whose cancel function has run
  handlers,     \* signal handler goroutines, handlers[h] serves context h-1
  sigCount,     \* termination signals sent to the process
  wg,           \* m.Wg counter
  ApiEvents,    \* ingestion queue
  GrpcEvents,   \* output queue of the gRPC exporter
  HttpEvents,   \* output queue of the HTTP exporter
  closed,       \* channels that have been closed
  nextEv,       \* events pushed onto ApiEvents so far
  foPc,         \* position of fanOutAPIEvents
  foEv,         \* event held by fanOutAPIEvents
  stats,        \* fanoutStats
  grpcExpPc,    \* gRPC exporter task
  httpExpPc,    \* HTTP exporter task
  httpSrvPc,    \* passive-ingestion server task
  grpcSrvPc,    \* gRPC server task
  watcherPc,    \* OnConfigChange callback
  watcherCfg,   \* configuration the callback is sending
  changes,      \* configuration-change events so far
  tasks,        \* tasks[s]: receiver task started under scope s
  wasmPlugins,  \* mesh extension resources with the fixed name in the cluster
  procExit,     \* os.Exit(1) was called
  panicked,     \* a goroutine panicked (send on closed channel)
  deqHist,      \* history: events dequeued by fan-out, in order
  grpcPlaced,   \* history: events placed on GrpcEvents, in order
  httpPlaced,   \* history: events placed on HttpEvents, in order
  grpcPopped,   \* history: events popped by the gRPC exporter
  httpPopped,   \* history: events popped by the HTTP exporter
  conn,         \* a line-protocol connection served by handleConn
  webhooks,     \* number of entries of cfg.Exporter.HTTP.Webhooks
  sends,        \* Exporter.send goroutines that have not returned
  sendLog,      \* history: sends started, in order, with how each returned
  targets,      \* cfg.Exporter.HTTP.Webhooks: URL scheme and TLS block of each
  client,       \* the http.Client built by buildHTTPClient
  subs,         \* client streams subscribed to the gRPC exporter
  msgs,         \* history: messages handed to the pull-subscription callback
  heap,         \* heap[e]: the fields of the event that pointer e refers to
  entry,        \* a log entry decoded by processMessage
  apiEvent      \* the event processMessage has built from the entry

vars == << mgrPc, cfg, httpEnabled, cancelled, handlers, sigCount, wg,
           ApiEvents, GrpcEvents, HttpEvents, closed, nextEv, foPc, foEv,
           stats, grpcExpPc, httpExpPc, httpSrvPc, grpcSrvPc, watcherPc,
           watcherCfg, changes, tasks, wasmPlugins, procExit, panicked,
           deqHist, grpcPlaced, httpPlaced, grpcPopped, httpPopped, conn,
           webhooks, sends, sendLog, targets, client, subs, msgs, heap,
           entry, apiEvent >>

tlsVars == << targets, client >>
entryVars == << entry, apiEvent >>
extVars == << tlsVars, subs, msgs, heap, entryVars >>
auxVars == << conn, webhooks, sends, sendLog, extVars >>
mgrVars == << mgrPc, cfg, httpEnabled >>
sigVars == << handlers, sigCount >>
queueVars == << ApiEvents, GrpcEvents, HttpEvents, closed, nextEv >>
foVars == << foPc, foEv, stats >>
expVars == << grpcExpPc, httpExpPc >>
srvVars == << httpSrvPc, grpcSrvPc >>
watchVars == << watcherPc, watcherCfg, changes >>
histVars == << deqHist, grpcPlaced, httpPlaced, grpcPopped, httpPopped >>

\* the process is running: no os.Exit, no panic, and Manager.run has not
\* returned (Run and main return after it, which ends every goroutine)
Alive == ~procExit /\ ~panicked /\ mgrPc \notin {"returned", "stopped"}

\* m.Ctx
RootCtx == 0

\* the scope m.receiversCtx refers to
CurScope == Len(tasks)

\* a scope for which receiver.Init started no task
NoTask ==
  [kind |-> "none", pc |-> "none", push |-> 0, err |-> "nil",
   tag |-> 0]

\* no connection is being served
NoConn ==
  [pc |-> "none", lines |-> << >>, ev |-> [out |-> "nil"], read |-> 0,
   pushed |-> << >>, built |-> << >>]

\* a webhook target without a TLS block (wh.TLS == nil)
NoTls == [set |-> FALSE, skip |-> FALSE, ca |-> "", cert |-> "", key |-> ""]

\* n webhook targets with a plain http URL
PlainTargets(n) == [i \in 1..n |-> [https |-> FALSE, tls |-> NoTls]]

\* InitHTTPExporter has not built a client
NoClient == [built |-> FALSE, err |-> FALSE]

\* no log entry is being processed, no event has been built from one
NoEntry == [method |-> "none"]
NoEvent == [receiver |-> "nil"]

\* the state of the program when Run calls Manager.run
InitProgram ==
  /\ mgrPc = "init"
  /\ cfg \in Configs
  /\ httpEnabled \in BOOLEAN
  /\ cancelled = {}
  /\ handlers = << >>
  /\ sigCount = 0
  /\ wg = 0
  /\ ApiEvents = << >>
  /\ GrpcEvents = << >>
  /\ HttpEvents = << >>
  /\ closed = {}
  /\ nextEv = 0
  /\ foPc = "none"
  /\ foEv = 0
  /\ stats = [inCount |-> 0, grpcDrop |-> 0, httpDrop |-> 0]
  /\ grpcExpPc = "none"
  /\ httpExpPc = "none"
  /\ httpSrvPc = "none"
  /\ grpcSrvPc = "none"
  /\ watcherPc = "idle"
  /\ watcherCfg = cfg
  /\ changes = 0
  /\ tasks = << >>
  /\ wasmPlugins = << >>
  /\ procExit = FALSE
  /\ panicked = FALSE
  /\ deqHist = << >>
  /\ grpcPlaced = << >>
  /\ httpPlaced = << >>
  /\ grpcPopped = << >>
  /\ httpPopped = << >>
  /\ sends = {}
  /\ sendLog = << >>
  /\ client = NoClient
  /\ subs = << >>
  /\ msgs = << >>
  /\ heap = << >>

Init ==
  /\ InitProgram
  /\ webhooks \in 0..MaxWebhooks
  /\ targets = PlainTargets(webhooks)
  /\ conn = NoConn
  /\ entry = NoEntry
  /\ apiEvent = NoEvent

\* no webhook target is configured
NoWebhooks == webhooks = 0

\* ------------------------------------------------------------- channels
\* a channel that takes one element more than its capacity
HasRoomOffByOne(q) == Len(q) <= QueueCap

\* a buffered channel of capacity QueueCap has room for one more element
HasRoom(q) == Len(q) < QueueCap

\* a send that puts the event at the head of the queue
TrySendFront(q, ev) == IF Len(q) < QueueCap THEN << ev >> \o q ELSE q

\* a full queue whose drop is not counted
CountDropNever(q, n) == n

\* a send that puts another event on the queue than the one it was given
TrySendOther(q, ev) == IF Len(q) < QueueCap THEN Append(q, ev + 1) ELSE q

\* select { case out <- ev: default: drop++ }: the queue after the attempt
TrySend(q, ev) == IF HasRoom(q) THEN Append(q, ev) ELSE q

\* a drop counter that counts every event, placed or not
CountDropAlways(q, n) == n + 1

\* select { case out <- ev: default: drop++ }: the drop counter after it
CountDrop(q, n) == IF HasRoom(q) THEN n ELSE n + 1

\* ------------------------------------------------------- signal handlers
\* a handler goroutine: stage 0 waits for the first signal, stage 1 for the
\* second; pending is the content of its signal channel (capacity 2)
NewHandler == [stage |-> 0, pending |-> 0]

\* signal.Notify delivery: non-blocking send into a channel of capacity 2
Deliver(h) == [h EXCEPT !.pending = IF h.pending < 2 THEN h.pending + 1 ELSE 2]

\* the operating system sends SIGINT/SIGTERM to the process
Signal ==
  /\ Alive
  /\ Len(handlers) > 0
  /\ sigCount < MaxSignals
  /\ sigCount' = sigCount + 1
  /\ handlers' = [h \in 1..Len(handlers) |-> Deliver(handlers[h])]
  /\ UNCHANGED << auxVars, mgrVars, cancelled, wg, queueVars, foVars, expVars,
                  srvVars, watchVars, tasks, wasmPlugins, procExit,
                  panicked, histVars >>

\* the only termination signal of the run
FirstSignal == sigCount = 0 /\ Signal

\* a handler that ends the process on the first signal it takes
HandlerExitsAtOnce(h) ==
  /\ Alive
  /\ handlers[h].stage = 0
  /\ handlers[h].pending > 0
  /\ handlers' = [handlers EXCEPT ![h] = [stage |-> 2, pending |-> @.pending - 1]]
  /\ procExit' = TRUE
  /\ UNCHANGED << auxVars, mgrVars, cancelled, sigCount, wg, queueVars, foVars, expVars,
                  srvVars, watchVars, tasks, wasmPlugins, panicked, histVars >>

\* <-c; cancel(): the first signal cancels the handler's context
HandlerCancel(h) ==
  /\ Alive
  /\ handlers[h].stage = 0
  /\ handlers[h].pending > 0
  /\ handlers' = [handlers EXCEPT ![h] = [stage |-> 1, pending |-> @.pending - 1]]
  /\ cancelled' = cancelled \cup {h - 1}
  /\ UNCHANGED << auxVars, mgrVars, sigCount, wg, queueVars, foVars, expVars, srvVars,
                  watchVars, tasks, wasmPlugins, procExit, panicked, histVars >>

\* <-c; os.Exit(1): the second signal ends the process
HandlerExit(h) ==
  /\ Alive
  /\ handlers[h].stage = 1
  /\ handlers[h].pending > 0
  /\ handlers' = [handlers EXCEPT ![h] = [stage |-> 2, pending |-> @.pending - 1]]
  /\ procExit' = TRUE
  /\ UNCHANGED << auxVars, mgrVars, cancelled, sigCount, wg, queueVars, foVars, expVars,
                  srvVars, watchVars, tasks, wasmPlugins, panicked, histVars >>

\* ------------------------------------------------------------- fan-out
\* case ev, ok := <-in: take the head of the ingestion queue and count it;
\* on a closed and empty queue return
FanOutRecv ==
  /\ Alive
  /\ foPc = "select"
  /\ IF Len(ApiEvents) > 0
       THEN /\ foEv' = Head(ApiEvents)
            /\ ApiEvents' = Tail(ApiEvents)
            /\ stats' = [stats EXCEPT !.inCount = @ + 1]
            /\ deqHist' = Append(deqHist, Head(ApiEvents))
            /\ foPc' = "grpc"
            /\ wg' = wg
       ELSE /\ "api" \in closed
            /\ foPc' = "done"
            /\ wg' = wg - 1
            /\ UNCHANGED << foEv, ApiEvents, stats, deqHist >>
  /\ UNCHANGED << auxVars, mgrVars, cancelled, sigVars, GrpcEvents, HttpEvents, closed,
                  nextEv, expVars, srvVars, watchVars, tasks, wasmPlugins,
                  procExit, panicked, grpcPlaced, httpPlaced, grpcPopped,
                  httpPopped >>

\* a send to the gRPC exporter that waits for room in the queue
FanOutSendGrpcBlocking ==
  /\ Alive
  /\ foPc = "grpc"
  /\ Len(GrpcEvents) < QueueCap
  /\ GrpcEvents' = Append(GrpcEvents, foEv)
  /\ grpcPlaced' = Append(grpcPlaced, foEv)
  /\ foPc' = "http"
  /\ UNCHANGED << auxVars, mgrVars, cancelled, sigVars, wg, ApiEvents, HttpEvents,
                  closed, nextEv, foEv, stats, expVars, srvVars, watchVars,
                  tasks, wasmPlugins, procExit, panicked, deqHist, httpPlaced,
                  grpcPopped, httpPopped >>

\* non-blocking send to the gRPC exporter
FanOutSendGrpc ==
  /\ Alive
  /\ foPc = "grpc"
  /\ GrpcEvents' = TrySend(GrpcEvents, foEv)
  /\ stats' = [stats EXCEPT !.grpcDrop = CountDrop(GrpcEvents, @)]
  /\ grpcPlaced' = IF HasRoom(GrpcEvents) THEN Append(grpcPlaced, foEv) ELSE grpcPlaced
  /\ foPc' = "http"
  /\ UNCHANGED << auxVars, mgrVars, cancelled, sigVars, wg, ApiEvents, HttpEvents,
                  closed, nextEv, foEv, expVars, srvVars, watchVars, tasks,
                  wasmPlugins, procExit, panicked, deqHist, httpPlaced,
                  grpcPopped, httpPopped >>

\* a send to the HTTP exporter that waits for room in the queue
FanOutSendHttpBlocking ==
  /\ Alive
  /\ foPc = "http"
  /\ Len(HttpEvents) < QueueCap
  /\ HttpEvents' = Append(HttpEvents, foEv)
  /\ httpPlaced' = Append(httpPlaced, foEv)
  /\ foPc' = "select"
  /\ UNCHANGED << auxVars, mgrVars, cancelled, sigVars, wg, ApiEvents, GrpcEvents,
                  closed, nextEv, foEv, stats, expVars, srvVars, watchVars,
                  tasks, wasmPlugins, procExit, panicked, deqHist, grpcPlaced,
                  grpcPopped, httpPopped >>

\* non-blocking send to the HTTP exporter
FanOutSendHttp ==
  /\ Alive
  /\ foPc = "http"
  /\ HttpEvents' = TrySend(HttpEvents, foEv)
  /\ stats' = [stats EXCEPT !.httpDrop = CountDrop(HttpEvents, @)]
  /\ httpPlaced' = IF HasRoom(HttpEvents) THEN Append(httpPlaced, foEv) ELSE httpPlaced
  /\ foPc' = "select"
  /\ UNCHANGED << auxVars, mgrVars, cancelled, sigVars, wg, ApiEvents, GrpcEvents,
                  closed, nextEv, foEv, expVars, srvVars, watchVars, tasks,
                  wasmPlugins, procExit, panicked, deqHist, grpcPlaced,
                  grpcPopped, httpPopped >>

\* a fan-out that takes the cancellation only once its input is drained
FanOutCancelWhenDrained ==
  /\ Alive
  /\ foPc = "select"
  /\ RootCtx \in cancelled
  /\ ApiEvents = << >>
  /\ foPc' = "done"
  /\ wg' = wg - 1
  /\ UNCHANGED << auxVars, mgrVars, cancelled, sigVars, queueVars, foEv, stats, expVars,
                  srvVars, watchVars, tasks, wasmPlugins, procExit, panicked,
                  histVars >>

\* a fan-out that takes the cancellation only once its input is closed
FanOutCancelWhenClosed ==
  /\ Alive
  /\ foPc = "select"
  /\ RootCtx \in cancelled
  /\ "api" \in closed
  /\ foPc' = "done"
  /\ wg' = wg - 1
  /\ UNCHANGED << auxVars, mgrVars, cancelled, sigVars, queueVars, foEv, stats, expVars,
                  srvVars, watchVars, tasks, wasmPlugins, procExit, panicked,
                  histVars >>

\* case <-ctx.Done(): log the counters and return
FanOutCancel ==
  /\ Alive
  /\ foPc = "select"
  /\ RootCtx \in cancelled
  /\ foPc' = "done"
  /\ wg' = wg - 1
  /\ UNCHANGED << auxVars, mgrVars, cancelled, sigVars, queueVars, foEv, stats, expVars,
                  srvVars, watchVars, tasks, wasmPlugins, procExit, panicked,
                  histVars >>

\* ------------------------------------------------------------ exporters
\* a client stream that has just subscribed: its buffer, whether the client
\* reads, has stopped reading or has disconnected, and the events dropped
\* for it
NewSub == [buf |-> << >>, st |-> "reading", drops |-> 0]

\* delivery of ev to one subscriber: into its buffer when there is room,
\* dropped otherwise; a disconnected stream gets nothing
deliver(sub, ev) ==
  IF sub.st = "gone" THEN sub
  ELSE IF Len(sub.buf) < SubCap THEN [sub EXCEPT !.buf = Append(@, ev)]
  ELSE [sub EXCEPT !.drops = @ + 1]

\* the subscribers before the first one that is subscribed and whose buffer
\* is full
RECURSIVE UpToFull(_, _)
UpToFull(ss, i) ==
  IF i > Len(ss) THEN Len(ss)
  ELSE IF ss[i].st # "gone" /\ Len(ss[i].buf) >= SubCap THEN i - 1
  ELSE UpToFull(ss, i + 1)

\* a broadcast that stops at the first subscriber whose buffer is full
broadcastUntilFull(ss, ev) ==
  [i \in 1..Len(ss) |-> IF i <= UpToFull(ss, 1) THEN deliver(ss[i], ev) ELSE ss[i]]

\* the broadcast of one event to every subscribed client stream
broadcast(ss, ev) == [i \in 1..Len(ss) |-> deliver(ss[i], ev)]

\* gRPC exporter: pop one event from its output queue and broadcast it
GrpcExporterPop ==
  /\ Alive
  /\ grpcExpPc = "run"
  /\ Len(GrpcEvents) > 0
  /\ grpcPopped' = Append(grpcPopped, Head(GrpcEvents))
  /\ GrpcEvents' = Tail(GrpcEvents)
  /\ subs' = broadcast(subs, Head(GrpcEvents))
  /\ UNCHANGED << conn, webhooks, sends, sendLog, tlsVars, entryVars, msgs, heap, mgrVars, cancelled, sigVars, wg, ApiEvents, HttpEvents,
                  closed, nextEv, foVars, expVars, srvVars, watchVars, tasks,
                  wasmPlugins, procExit, panicked, deqHist, grpcPlaced,
                  httpPlaced, httpPopped >>

\* a client opens a stream on the gRPC exporter
Subscribe ==
  /\ Alive
  /\ grpcExpPc = "run"
  /\ Len(subs) < MaxSubs
  /\ subs' = Append(subs, NewSub)
  /\ UNCHANGED << conn, webhooks, sends, sendLog, tlsVars, entryVars, msgs, heap, mgrVars,
                  cancelled, sigVars, wg, queueVars, foVars, expVars, srvVars,
                  watchVars, tasks, wasmPlugins, procExit, panicked, histVars >>

\* the stream of subscriber i takes the next event from its buffer
SubRead(i) ==
  /\ Alive
  /\ subs[i].st = "reading"
  /\ Len(subs[i].buf) > 0
  /\ subs' = [subs EXCEPT ![i].buf = Tail(@)]
  /\ UNCHANGED << conn, webhooks, sends, sendLog, tlsVars, entryVars, msgs, heap, mgrVars,
                  cancelled, sigVars, wg, queueVars, foVars, expVars, srvVars,
                  watchVars, tasks, wasmPlugins, procExit, panicked, histVars >>

\* subscriber i stops reading (st = "stalled") or disconnects (st = "gone")
SubLeaves(i, st) ==
  /\ Alive
  /\ subs[i].st = "reading"
  /\ subs' = [subs EXCEPT ![i].st = st]
  /\ UNCHANGED << conn, webhooks, sends, sendLog, tlsVars, entryVars, msgs, heap, mgrVars,
                  cancelled, sigVars, wg, queueVars, foVars, expVars, srvVars,
                  watchVars, tasks, wasmPlugins, procExit, panicked, histVars >>

\* the client streams of the gRPC exporter
Subscribers ==
  \/ Subscribe
  \/ \E i \in 1..Len(subs) : SubRead(i)
  \/ \E i \in 1..Len(subs) : \E st \in {"stalled", "gone"} : SubLeaves(i, st)

\* gRPC exporter: its context is cancelled
GrpcExporterCancel ==
  /\ Alive
  /\ grpcExpPc = "run"
  /\ RootCtx \in cancelled
  /\ grpcExpPc' = "done"
  /\ wg' = wg - 1
  /\ UNCHANGED << auxVars, mgrVars, cancelled, sigVars, queueVars, foVars, httpExpPc,
                  srvVars, watchVars, tasks, wasmPlugins, procExit, panicked,
                  histVars >>

\* a dispatch that starts a send for the first webhook target only
dispatchFirstOnly(ev) ==
  [w \in 1..(IF webhooks > 0 THEN 1 ELSE 0) |->
     [ev |-> ev, wh |-> w, st |-> "running"]]

\* Exporter.dispatch: one send goroutine per entry of e.webhooks, in order
dispatch(ev) ==
  [w \in 1..webhooks |-> [ev |-> ev, wh |-> w, st |-> "running"]]

\* Exporter.run, case ev, ok := <-e.events: dispatch(ev)
HttpExporterPop ==
  /\ Alive
  /\ httpExpPc = "run"
  /\ Len(HttpEvents) > 0
  /\ httpPopped' = Append(httpPopped, Head(HttpEvents))
  /\ HttpEvents' = Tail(HttpEvents)
  /\ LET started == dispatch(Head(HttpEvents))
     IN  /\ sendLog' = sendLog \o started
         /\ sends' = sends \cup { [ev |-> started[i].ev, wh |-> started[i].wh] :
                                    i \in 1..Len(started) }
  /\ UNCHANGED << conn, webhooks, extVars, mgrVars, cancelled, sigVars, wg, ApiEvents,
                  GrpcEvents, closed, nextEv, foVars, expVars, srvVars,
                  watchVars, tasks, wasmPlugins, procExit, panicked, deqHist,
                  grpcPlaced, httpPlaced, grpcPopped >>

\* Exporter.run, case ev, ok := <-e.events with !ok: the queue is closed and
\* drained, the loop returns and the deferred wg.Done() runs
HttpExporterClosed ==
  /\ Alive
  /\ httpExpPc = "run"
  /\ Len(HttpEvents) = 0
  /\ "http" \in closed
  /\ httpExpPc' = "done"
  /\ wg' = wg - 1
  /\ UNCHANGED << auxVars, mgrVars, cancelled, sigVars, queueVars, foVars,
                  grpcExpPc, srvVars, watchVars, tasks, wasmPlugins, procExit,
                  panicked, histVars >>

\* how Exporter.send returns: delivered with a status below 300, or one of
\* its four failures
Outcomes == {"ok", "marshal", "request", "transport", "status"}
Failures == Outcomes \ {"ok"}

\* a send that is started again when it fails
SendRetries(i, outcome) ==
  /\ Alive
  /\ i \in 1..Len(sendLog)
  /\ sendLog[i].st = "running"
  /\ sendLog' = IF outcome \in Failures /\ Len(sendLog) < 2 * MaxEvents * MaxWebhooks
                  THEN Append([sendLog EXCEPT ![i].st = outcome], sendLog[i])
                  ELSE [sendLog EXCEPT ![i].st = outcome]
  /\ sends' = IF outcome \in Failures THEN sends
              ELSE sends \ { [ev |-> sendLog[i].ev, wh |-> sendLog[i].wh] }
  /\ UNCHANGED << conn, webhooks, extVars, mgrVars, cancelled, sigVars, wg, queueVars,
                  foVars, expVars, srvVars, watchVars, tasks, wasmPlugins,
                  procExit, panicked, histVars >>

\* Exporter.send returns: the request was delivered, or the failure was
\* logged; nothing else is done in either case
SendReturns(i, outcome) ==
  /\ Alive
  /\ i \in 1..Len(sendLog)
  /\ sendLog[i].st = "running"
  /\ sendLog' = [sendLog EXCEPT ![i].st = outcome]
  /\ sends' = sends \ { [ev |-> sendLog[i].ev, wh |-> sendLog[i].wh] }
  /\ UNCHANGED << conn, webhooks, extVars, mgrVars, cancelled, sigVars, wg, queueVars,
                  foVars, expVars, srvVars, watchVars, tasks, wasmPlugins,
                  procExit, panicked, histVars >>

\* an exporter that takes the cancellation only once its queue is closed
HttpExporterCancelWhenClosed ==
  /\ Alive
  /\ httpExpPc = "run"
  /\ RootCtx \in cancelled
  /\ "http" \in closed
  /\ httpExpPc' = "done"
  /\ wg' = wg - 1
  /\ UNCHANGED << auxVars, mgrVars, cancelled, sigVars, queueVars, foVars, grpcExpPc,
                  srvVars, watchVars, tasks, wasmPlugins, procExit, panicked,
                  histVars >>

\* Exporter.run, case <-ctx.Done(): return
HttpExporterCancel ==
  /\ Alive
  /\ httpExpPc = "run"
  /\ RootCtx \in cancelled
  /\ httpExpPc' = "done"
  /\ wg' = wg - 1
  /\ UNCHANGED << auxVars, mgrVars, cancelled, sigVars, queueVars, foVars, grpcExpPc,
                  srvVars, watchVars, tasks, wasmPlugins, procExit, panicked,
                  histVars >>

\* ------------------------------------------------------ ingestion queue
RECURSIVE SumPush(_, _)
\* events decoded by a receiver and not yet on the ingestion queue
SumPush(ts, i) == IF i = 0 THEN 0 ELSE ts[i].push + SumPush(ts, i - 1)

\* the sources may still produce one more event
MoreEvents == nextEv + SumPush(tasks, Len(tasks)) < MaxEvents

\* the event a receiver constructs for its n-th push: the queues carry the
\* pointer n, the heap holds the fields
APIEvent(n) == [requestId |-> n, method |-> "GET", status |-> 200]

\* apiEvents <- event, by task s: blocks while the queue is full, panics on a
\* closed channel
PushApiEvent ==
  /\ IF "api" \in closed
       THEN /\ panicked' = TRUE
            /\ UNCHANGED << ApiEvents, nextEv, heap >>
       ELSE /\ HasRoom(ApiEvents)
            /\ ApiEvents' = Append(ApiEvents, nextEv + 1)
            /\ heap' = Append(heap, APIEvent(nextEv + 1))
            /\ nextEv' = nextEv + 1
            /\ panicked' = panicked
  /\ UNCHANGED << GrpcEvents, HttpEvents, closed >>

\* passive-ingestion endpoint: a filter posts one event, the handler decodes
\* and enqueues it
PassiveIngest ==
  /\ Alive
  /\ httpSrvPc = "serving"
  /\ MoreEvents
  /\ PushApiEvent
  /\ UNCHANGED << conn, webhooks, sends, sendLog, tlsVars, entryVars, subs, msgs, mgrVars,
                  cancelled, sigVars, wg, foVars, expVars, srvVars, watchVars,
                  tasks, wasmPlugins, procExit, histVars >>

\* ------------------------------------------------------------ receivers
\* the context of scope s is done
ScopeDone(s) == s \in cancelled

\* task s returns: its deferred wg.Done runs
TaskReturns(s) ==
  /\ tasks' = [tasks EXCEPT ![s].pc = "done"]
  /\ wg' = wg - 1

\* validateResources: the configured deployment name and whether the
\* cluster returns the deployment
validateResources(name, found) ==
  IF name = "" THEN "kong deployment name not configured"
  ELSE IF ~found THEN "failed to get Kong Gateway deployment"
  ELSE "nil"

\* a start that validates again after a failure
KongStartRetries(s) ==
  /\ Alive
  /\ tasks[s].kind = "kong"
  /\ tasks[s].pc = "start"
  /\ \E name \in {"", "kong"}, found \in BOOLEAN :
       LET err == validateResources(name, found)
       IN  IF err = "nil"
             THEN tasks' = [tasks EXCEPT ![s].pc = "blocked"]
             ELSE tasks' = [tasks EXCEPT ![s].err = err]
  /\ UNCHANGED << auxVars, mgrVars, cancelled, sigVars, wg, queueVars, foVars,
                  expVars, srvVars, watchVars, wasmPlugins, procExit, panicked,
                  histVars >>

\* konggateway.Start up to "<-ctx.Done()": when validateResources fails the
\* error is logged and Start returns, otherwise the receiver stays
KongStart(s) ==
  /\ Alive
  /\ tasks[s].kind = "kong"
  /\ tasks[s].pc = "start"
  /\ \E name \in {"", "kong"}, found \in BOOLEAN :
       LET err == validateResources(name, found)
       IN  IF err = "nil"
             THEN tasks' = [tasks EXCEPT ![s].pc = "blocked"] /\ wg' = wg
             ELSE /\ tasks' = [tasks EXCEPT ![s].pc = "done", ![s].err = err]
                  /\ wg' = wg - 1
  /\ UNCHANGED << auxVars, mgrVars, cancelled, sigVars, queueVars, foVars, expVars,
                  srvVars, watchVars, wasmPlugins, procExit, panicked,
                  histVars >>

\* konggateway.Start from "<-ctx.Done()" to its return
KongStop(s) ==
  /\ Alive
  /\ tasks[s].kind = "kong"
  /\ tasks[s].pc = "blocked"
  /\ ScopeDone(s)
  /\ TaskReturns(s)
  /\ UNCHANGED << auxVars, mgrVars, cancelled, sigVars, queueVars, foVars, expVars,
                  srvVars, watchVars, wasmPlugins, procExit, panicked,
                  histVars >>

\* a message as sub.Receive hands it to the callback: the task that
\* receives it, whether its payload decodes, the acknowledgements it has
\* got and the event pushed for it (0: none)
Message(s, ok) == [task |-> s, ok |-> ok, acks |-> 0, ev |-> 0]

\* the callback of the message is inside processMessage, at the push
InFlight(m) == m.ok /\ m.acks = 0 /\ m.ev = 0

\* an acknowledgement for decodable messages only
AckIfDecoded(ms, i) == IF ms[i].ok THEN [ms EXCEPT ![i].acks = @ + 1] ELSE ms

\* msg.Ack()
Ack(ms, i) == [ms EXCEPT ![i].acks = @ + 1]

\* undecodable messages received so far
Undecodable(ms) == Cardinality({ i \in 1..Len(ms) : ~ms[i].ok })

\* gcp.Start up to sub.Receive: configuration checks and client creation
GcpStart(s) ==
  /\ Alive
  /\ tasks[s].kind = "gcp"
  /\ tasks[s].pc = "start"
  /\ \E ok \in BOOLEAN :
       IF ok
         THEN tasks' = [tasks EXCEPT ![s].pc = "receive"] /\ wg' = wg
         ELSE TaskReturns(s)
  /\ UNCHANGED << auxVars, mgrVars, cancelled, sigVars, queueVars, foVars, expVars,
                  srvVars, watchVars, wasmPlugins, procExit, panicked,
                  histVars >>

\* sub.Receive hands a decodable message to the callback: processMessage
\* builds the event and reaches "apiEvents <- apiEvent"
GcpMessage(s) ==
  /\ Alive
  /\ tasks[s].kind = "gcp"
  /\ tasks[s].pc = "receive"
  /\ ~ScopeDone(s)
  /\ tasks[s].push < MaxCallbacks
  /\ MoreEvents
  /\ tasks' = [tasks EXCEPT ![s].push = @ + 1]
  /\ msgs' = Append(msgs, Message(s, TRUE))
  /\ UNCHANGED << conn, webhooks, sends, sendLog, tlsVars, entryVars, subs, heap, mgrVars, cancelled, sigVars, wg, queueVars, foVars, expVars,
                  srvVars, watchVars, wasmPlugins, procExit, panicked,
                  histVars >>

\* processMessage: "apiEvents <- apiEvent", then msg.Ack(); a panic of the
\* send ends the process before the acknowledgement
GcpPush(s) ==
  /\ Alive
  /\ tasks[s].kind = "gcp"
  /\ tasks[s].push > 0
  /\ PushApiEvent
  /\ tasks' = [tasks EXCEPT ![s].push = @ - 1]
  /\ \E i \in 1..Len(msgs) :
       /\ InFlight(msgs[i]) /\ msgs[i].task = s
       /\ msgs' = IF panicked' THEN msgs
                  ELSE Ack([msgs EXCEPT ![i].ev = nextEv'], i)
  /\ UNCHANGED << conn, webhooks, sends, sendLog, tlsVars, entryVars, subs, mgrVars,
                  cancelled, sigVars, wg, foVars, expVars, srvVars, watchVars,
                  wasmPlugins, procExit, histVars >>

\* a callback that pushes an event for a payload it could not decode
GcpBadMessagePushes(s) ==
  /\ Alive
  /\ tasks[s].kind = "gcp"
  /\ tasks[s].pc = "receive"
  /\ ~ScopeDone(s)
  /\ tasks[s].push < MaxCallbacks
  /\ Undecodable(msgs) < MaxUndecodable
  /\ MoreEvents
  /\ PushApiEvent
  /\ msgs' = Ack(Append(msgs, Message(s, FALSE)), Len(msgs) + 1)
  /\ UNCHANGED << conn, webhooks, sends, sendLog, tlsVars, entryVars, subs, mgrVars,
                  cancelled, sigVars, wg, foVars, expVars, srvVars, watchVars,
                  tasks, wasmPlugins, procExit, histVars >>

\* sub.Receive hands a message whose payload is not a log entry to the
\* callback: processMessage logs the decoding error and returns (lines
\* 103-107), then msg.Ack()
GcpBadMessage(s) ==
  /\ Alive
  /\ tasks[s].kind = "gcp"
  /\ tasks[s].pc = "receive"
  /\ ~ScopeDone(s)
  /\ tasks[s].push < MaxCallbacks
  /\ Undecodable(msgs) < MaxUndecodable
  /\ msgs' = Ack(Append(msgs, Message(s, FALSE)), Len(msgs) + 1)
  /\ UNCHANGED << conn, webhooks, sends, sendLog, tlsVars, entryVars, subs, heap, mgrVars,
                  cancelled, sigVars, wg, queueVars, foVars, expVars, srvVars,
                  watchVars, tasks, wasmPlugins, procExit, panicked, histVars >>

\* sub.Receive returns once its context is done and every callback returned
GcpStop(s) ==
  /\ Alive
  /\ tasks[s].kind = "gcp"
  /\ tasks[s].pc = "receive"
  /\ ScopeDone(s)
  /\ tasks[s].push = 0
  /\ TaskReturns(s)
  /\ UNCHANGED << auxVars, mgrVars, cancelled, sigVars, queueVars, foVars, expVars,
                  srvVars, watchVars, wasmPlugins, procExit, panicked,
                  histVars >>

\* the network names net.Listen knows for stream listeners; any other name
\* is an unknown network
KnownNetworks == {"tcp", "tcp4", "tcp6", "unix", "unixpacket"}

\* net.Listen(network, addr) returns a listener
Listen(network, portFree) == network \in KnownNetworks /\ portFree

\* f5bigip.Start: net.Listen("TCP", ":port"); on an error Start logs it and
\* returns, else it enters the accept loop, which has no exit. The name
\* "TCP" is not a known network, so Start returns here
F5Start(s) ==
  /\ Alive
  /\ tasks[s].kind = "f5"
  /\ tasks[s].pc = "start"
  /\ \E portFree \in BOOLEAN :
       IF Listen("TCP", portFree)
         THEN tasks' = [tasks EXCEPT ![s].pc = "accept"] /\ wg' = wg
         ELSE TaskReturns(s)
  /\ UNCHANGED << auxVars, mgrVars, cancelled, sigVars, queueVars, foVars, expVars,
                  srvVars, watchVars, wasmPlugins, procExit, panicked,
                  histVars >>

\* ------------------------------------------------- mesh-extension reconciler
\* the cluster API's create: a second resource of the same name is refused
K8sCreate(cl, tag) ==
  IF cl # << >> THEN [cl |-> cl, err |-> "AlreadyExists"]
                ELSE [cl |-> << tag >>, err |-> "nil"]

\* the cluster API's delete: an absent resource is reported
K8sDelete(cl) ==
  IF cl = << >> THEN [cl |-> cl, err |-> "NotFound"]
                ELSE [cl |-> << >>, err |-> "nil"]

\* a create that reports the cluster's "already exists" to its caller
createWasmPluginStrict(cl, tag) == K8sCreate(cl, tag)

\* createWasmPlugin: "already exists" is success, nothing is re-applied
createWasmPlugin(cl, tag) ==
  LET r == K8sCreate(cl, tag)
  IN  IF r.err = "AlreadyExists" THEN [cl |-> r.cl, err |-> "nil"] ELSE r

\* a delete that takes an absent resource for success
deleteWasmPluginLenient(cl) == [cl |-> << >>, err |-> "nil"]

\* deleteWasmPlugin: the cluster's answer is returned as it is
deleteWasmPlugin(cl) == K8sDelete(cl)

\* the resource is put into the cluster from outside the program (the
\* fakeClient.Create of the tests, a resource left by an earlier process)
ClusterApply ==
  /\ Alive
  /\ Len(tasks) > 0
  /\ wasmPlugins = << >>
  /\ \E tag \in {1, 2} : wasmPlugins' = << tag >>
  /\ UNCHANGED << auxVars, mgrVars, cancelled, sigVars, wg, queueVars, foVars, expVars,
                  srvVars, watchVars, tasks, procExit, panicked, histVars >>

\* the resource is removed from outside the program (the fakeClient.Delete
\* of the tests)
ClusterDelete ==
  /\ Alive
  /\ Len(tasks) > 0
  /\ wasmPlugins # << >>
  /\ wasmPlugins' = << >>
  /\ UNCHANGED << auxVars, mgrVars, cancelled, sigVars, wg, queueVars, foVars, expVars,
                  srvVars, watchVars, tasks, procExit, panicked, histVars >>

\* gateway StartMonitoring up to createWasmPlugin: the target deployment is
\* looked up, a missing one ends the receiver
MeshStart(s) ==
  /\ Alive
  /\ tasks[s].kind = "mesh"
  /\ tasks[s].pc = "start"
  /\ \E valid \in BOOLEAN :
       IF valid
         THEN tasks' = [tasks EXCEPT ![s].pc = "create"] /\ wg' = wg
         ELSE TaskReturns(s)
  /\ UNCHANGED << auxVars, mgrVars, cancelled, sigVars, queueVars, foVars, expVars,
                  srvVars, watchVars, wasmPlugins, procExit, panicked,
                  histVars >>

\* gateway StartMonitoring: createWasmPlugin with the configured spec, then
\* block on the cancellation signal
MeshCreate(s) ==
  /\ Alive
  /\ tasks[s].kind = "mesh"
  /\ tasks[s].pc = "create"
  /\ LET r == createWasmPlugin(wasmPlugins, tasks[s].tag)
     IN  /\ wasmPlugins' = r.cl
         /\ IF r.err = "nil"
              THEN tasks' = [tasks EXCEPT ![s].pc = "blocked"] /\ wg' = wg
              ELSE /\ tasks' = [tasks EXCEPT ![s].pc = "done", ![s].err = r.err]
                   /\ wg' = wg - 1
  /\ UNCHANGED << auxVars, mgrVars, cancelled, sigVars, queueVars, foVars, expVars,
                  srvVars, watchVars, procExit, panicked, histVars >>

\* gateway StartMonitoring after "<-ctx.Done()": deleteWasmPlugin, report its
\* error, return
MeshStop(s) ==
  /\ Alive
  /\ tasks[s].kind = "mesh"
  /\ tasks[s].pc = "blocked"
  /\ ScopeDone(s)
  /\ LET r == deleteWasmPlugin(wasmPlugins)
     IN  /\ wasmPlugins' = r.cl
         /\ tasks' = [tasks EXCEPT ![s].pc = "done", ![s].err = r.err]
         /\ wg' = wg - 1
  /\ UNCHANGED << auxVars, mgrVars, cancelled, sigVars, queueVars, foVars, expVars,
                  srvVars, watchVars, procExit, panicked, histVars >>

\* ------------------------------------------------------- receiver.Init
\* Manager.areK8sReceivers
areK8sReceivers(c) == c.recv \in {"mesh", "kong"}

\* receiver.Init: the task it starts for the configured receiver
InitTask(c) ==
  IF c.recv \in TaskKinds
    THEN [kind |-> c.recv, pc |-> "start", push |-> 0,
          err |-> "nil", tag |-> c.tag]
    ELSE NoTask

\* receiver.Init: an unsupported receiver name is an error
InitFails(c) == c.recv \notin (TaskKinds \cup LogOnlyKinds)

\* setupSignalHandler followed by receiver.Init under the new scope
StartReceivers(c) ==
  /\ handlers' = Append(handlers, NewHandler)
  /\ tasks' = Append(tasks, InitTask(c))
  /\ wg' = IF c.recv \in TaskKinds THEN wg + 1 ELSE wg

\* ----------------------------------------------------------- Manager.run
\* run, lines 74-88: root signal handler, wait group, queues, cluster client
RunSetup ==
  /\ Alive
  /\ mgrPc = "init"
  /\ handlers' = << NewHandler >>
  /\ \E ok \in BOOLEAN :
       mgrPc' = IF areK8sReceivers(cfg) /\ ~ok THEN "returned" ELSE "httpsrv"
  /\ UNCHANGED << auxVars, cfg, httpEnabled, cancelled, sigCount, wg, queueVars,
                  foVars, expVars, srvVars, watchVars, tasks, wasmPlugins,
                  procExit, panicked, histVars >>

\* run, lines 90-94: the passive-ingestion server task
RunStartHttpServer ==
  /\ Alive
  /\ mgrPc = "httpsrv"
  /\ httpSrvPc' = "serving"
  /\ wg' = wg + 1
  /\ mgrPc' = "receivers"
  /\ UNCHANGED << auxVars, cfg, httpEnabled, cancelled, sigVars, queueVars, foVars,
                  expVars, grpcSrvPc, watchVars, tasks, wasmPlugins, procExit,
                  panicked, histVars >>

\* run, lines 96-100: the receiver scope and the initial receiver set
RunInitReceivers ==
  /\ Alive
  /\ mgrPc = "receivers"
  /\ StartReceivers(cfg)
  /\ mgrPc' = IF InitFails(cfg) THEN "returned" ELSE "fanout"
  /\ UNCHANGED << auxVars, cfg, httpEnabled, cancelled, sigCount, queueVars, foVars,
                  expVars, srvVars, watchVars, wasmPlugins, procExit, panicked,
                  histVars >>

\* run, lines 102-106: the fan-out task
RunStartFanOut ==
  /\ Alive
  /\ mgrPc = "fanout"
  /\ foPc' = "select"
  /\ wg' = wg + 1
  /\ mgrPc' = "grpcexp"
  /\ UNCHANGED << auxVars, cfg, httpEnabled, cancelled, sigVars, queueVars, foEv, stats,
                  expVars, srvVars, watchVars, tasks, wasmPlugins, procExit,
                  panicked, histVars >>

\* run, lines 108-111: the gRPC exporter task, or an error
RunInitGRPCExporter ==
  /\ Alive
  /\ mgrPc = "grpcexp"
  /\ \E ok \in BOOLEAN :
       IF ok
         THEN grpcExpPc' = "run" /\ wg' = wg + 1 /\ mgrPc' = "httpexp"
         ELSE grpcExpPc' = grpcExpPc /\ wg' = wg /\ mgrPc' = "returned"
  /\ UNCHANGED << auxVars, cfg, httpEnabled, cancelled, sigVars, queueVars, foVars,
                  httpExpPc, srvVars, watchVars, tasks, wasmPlugins, procExit,
                  panicked, histVars >>

\* os.ReadFile and tls.LoadX509KeyPair fail on a path that names no file
Unreadable(path) == path = "missing"

\* the transport before any TLS block is applied: TLSClientConfig is nil, so
\* certificates are verified against the default roots
DefaultClient ==
  [built |-> TRUE, err |-> FALSE, tlsSet |-> FALSE, skip |-> FALSE,
   roots |-> {"default"}, certs |-> << >>]

\* construction failed: return nil, err
ClientError == [built |-> FALSE, err |-> TRUE]

\* buildHTTPClient, one round of the loop over the webhooks (lines 403-442):
\* targets that are not https or have no TLS block are skipped; a CA path
\* replaces RootCAs by a pool of that one CA, a key pair replaces
\* Certificates, InsecureSkipVerify is only ever set
applyTls(c, wh) ==
  IF c.err \/ ~wh.https \/ ~wh.tls.set THEN c
  ELSE IF wh.tls.ca # "" /\ Unreadable(wh.tls.ca) THEN ClientError
  ELSE IF wh.tls.cert # "" /\ wh.tls.key # ""
            /\ (Unreadable(wh.tls.cert) \/ Unreadable(wh.tls.key))
    THEN ClientError
  ELSE [c EXCEPT
          !.tlsSet = TRUE,
          !.roots = IF wh.tls.ca # "" THEN {wh.tls.ca} ELSE @,
          !.certs = IF wh.tls.cert # "" /\ wh.tls.key # ""
                      THEN << wh.tls.cert >> ELSE @,
          !.skip = @ \/ wh.tls.skip]

RECURSIVE buildFrom(_, _)
buildFrom(whs, c) ==
  IF whs = << >> THEN c ELSE buildFrom(Tail(whs), applyTls(c, Head(whs)))

\* buildHTTPClient(cfg): one client for all the webhooks
buildHTTPClient(whs) == buildFrom(whs, DefaultClient)

\* InitHTTPExporter after the Enabled test: the client is built and, unless
\* that fails, the exporter task is started
InitHTTPExporter ==
  /\ client' = buildHTTPClient(targets)
  /\ IF client'.err
       THEN httpExpPc' = httpExpPc /\ wg' = wg
       ELSE httpExpPc' = "run" /\ wg' = wg + 1

\* run, lines 113-116 with InitHTTPExporter: nothing when disabled, an error
\* from buildHTTPClient, or the HTTP exporter task
RunInitHTTPExporter ==
  /\ Alive
  /\ mgrPc = "httpexp"
  /\ IF ~httpEnabled
       THEN /\ httpExpPc' = httpExpPc /\ wg' = wg /\ client' = client
            /\ mgrPc' = "grpcsrv"
       ELSE /\ InitHTTPExporter
            /\ mgrPc' = IF client'.err THEN "returned" ELSE "grpcsrv"
  /\ UNCHANGED << conn, webhooks, sends, sendLog, targets, subs, msgs, heap,
                  entryVars,
                  cfg, httpEnabled, cancelled, sigVars, queueVars, foVars,
                  grpcExpPc, srvVars, watchVars, tasks, wasmPlugins, procExit,
                  panicked, histVars >>

\* run, lines 118-124: the gRPC server task; the loop is entered
RunStartGrpcServer ==
  /\ Alive
  /\ mgrPc = "grpcsrv"
  /\ grpcSrvPc' = "serving"
  /\ wg' = wg + 1
  /\ mgrPc' = "running"
  /\ UNCHANGED << auxVars, cfg, httpEnabled, cancelled, sigVars, queueVars, foVars,
                  expVars, httpSrvPc, watchVars, tasks, wasmPlugins, procExit,
                  panicked, histVars >>

\* run, lines 128-132: case <-m.Ctx.Done(): cancel the receiver scope, stop
\* both servers, then wait
RunShutdown ==
  /\ Alive
  /\ mgrPc = "running"
  /\ RootCtx \in cancelled
  /\ cancelled' = cancelled \cup {CurScope}
  /\ httpSrvPc' = "done"
  /\ grpcSrvPc' = "done"
  /\ wg' = wg - 2
  /\ mgrPc' = "waiting"
  /\ UNCHANGED << auxVars, cfg, httpEnabled, sigVars, queueVars, foVars, expVars,
                  watchVars, tasks, wasmPlugins, procExit, panicked,
                  histVars >>

\* run, lines 133-139: m.Wg.Wait() returns, the four channels are closed; a
\* callback blocked sending on configChan panics
RunWaitAndClose ==
  /\ Alive
  /\ mgrPc = "waiting"
  /\ wg = 0
  /\ closed' = {"api", "grpc", "http", "config"}
  /\ panicked' = (watcherPc = "sending")
  /\ mgrPc' = "stopped"
  /\ UNCHANGED << auxVars, cfg, httpEnabled, cancelled, sigVars, wg, ApiEvents,
                  GrpcEvents, HttpEvents, nextEv, foVars, expVars, srvVars,
                  watchVars, tasks, wasmPlugins, procExit, histVars >>

\* a reload that cancels the root scope with the receiver scope
ReloadCancelsAll == {RootCtx, CurScope}

\* a reload that cancels no scope
ReloadCancelsNone == {}

\* m.receiversCancelFunc() at the head of the reload branch: the scopes a
\* reload cancels
ReloadCancels == {CurScope}

\* run, lines 141-155: case updatedConfig := <-m.configChan: cancel the
\* receiver scope, rebuild the cluster client, start the new receiver set
RunReload ==
  /\ Alive
  /\ mgrPc = "running"
  /\ watcherPc = "sending"
  /\ watcherPc' = "idle"
  /\ cancelled' = cancelled \cup ReloadCancels
  /\ \E ok \in BOOLEAN :
       IF areK8sReceivers(watcherCfg) /\ ~ok
         THEN /\ mgrPc' = "returned"
              /\ UNCHANGED << cfg, handlers, tasks, wg >>
         ELSE /\ StartReceivers(watcherCfg)
              /\ cfg' = watcherCfg
              /\ mgrPc' = IF InitFails(watcherCfg) THEN "returned" ELSE "running"
  /\ UNCHANGED << auxVars, httpEnabled, sigCount, queueVars, foVars, expVars, srvVars,
                  watcherCfg, changes, wasmPlugins, procExit, panicked,
                  histVars >>

\* ----------------------------------------------------- Manager.watchConfig
\* the configuration file changes to one of the configurations cs: the
\* callback loads it and blocks sending it on configChan (unbuffered)
ConfigChangeTo(cs) ==
  /\ Alive
  /\ watcherPc = "idle"
  /\ changes < MaxReloads
  /\ changes' = changes + 1
  /\ \E c \in cs : watcherCfg' = c
  /\ watcherPc' = "sending"
  /\ UNCHANGED << auxVars, mgrVars, cancelled, sigVars, wg, queueVars, foVars, expVars,
                  srvVars, tasks, wasmPlugins, procExit, panicked, histVars >>

\* the configuration file as config.New sees it: whether it can be read,
\* whether it has a filters, an exporter (with its gRPC block) and a
\* receivers section, and the gRPC port it gives
ConfigFiles ==
  [readable : BOOLEAN, filters : BOOLEAN, exporter : BOOLEAN,
   receivers : BOOLEAN, port : {0, 8080}]

\* Config.validate: the first error, or "nil"
validate(f) ==
  IF ~f.filters THEN "no filter configuration provided"
  ELSE IF ~f.exporter THEN "no exporter configuration provided"
  ELSE IF f.port = 0 THEN "no exporter's gRPC port provided"
  ELSE IF ~f.receivers THEN "no receiver configuration provided"
  ELSE "nil"

\* config.New: an unreadable file is an error; config.Filters.Server is
\* read before validate is called, a nil pointer dereference when the file
\* has no filters section; then validate decides
New(f) ==
  IF ~f.readable THEN "err"
  ELSE IF ~f.filters THEN "panic"
  ELSE IF validate(f) # "nil" THEN "err"
  ELSE "ok"

\* the configuration file changes to one that config.New does not accept:
\* on an error the callback logs and returns; a panic in the callback ends
\* the process
ConfigChangeRejected ==
  /\ Alive
  /\ watcherPc = "idle"
  /\ changes < MaxReloads
  /\ changes' = changes + 1
  /\ \E f \in ConfigFiles :
       /\ New(f) # "ok"
       /\ panicked' = (New(f) = "panic")
  /\ UNCHANGED << auxVars, mgrVars, cancelled, sigVars, wg, queueVars, foVars, expVars,
                  srvVars, watcherPc, watcherCfg, tasks, wasmPlugins, procExit,
                  histVars >>

\* ------------------------------------------------------------ next state
\* Manager.run from its entry to its loop
Startup ==
  \/ RunSetup
  \/ RunStartHttpServer
  \/ RunInitReceivers
  \/ RunStartFanOut
  \/ RunInitGRPCExporter
  \/ RunInitHTTPExporter
  \/ RunStartGrpcServer

\* the steps of fan-out
FanOut ==
  \/ FanOutRecv
  \/ FanOutSendGrpc
  \/ FanOutSendHttp

\* the steps of the two exporters
Exporters ==
  \/ GrpcExporterPop
  \/ HttpExporterPop

\* the signal handler goroutines
Handlers ==
  \/ \E h \in 1..Len(handlers) : HandlerCancel(h)
  \/ \E h \in 1..Len(handlers) : HandlerExit(h)

\* what the tasks under m.Ctx and Manager.run do once m.Ctx is done
Shutdown ==
  \/ FanOutCancel
  \/ GrpcExporterCancel
  \/ HttpExporterCancel
  \/ RunShutdown
  \/ RunWaitAndClose

\* the Kong receiver
Kong ==
  \/ \E s \in 1..Len(tasks) : KongStart(s)
  \/ \E s \in 1..Len(tasks) : KongStop(s)

\* the pull-subscription receiver
Gcp ==
  \/ \E s \in 1..Len(tasks) : GcpStart(s)
  \/ \E s \in 1..Len(tasks) : GcpMessage(s)
  \/ \E s \in 1..Len(tasks) : GcpPush(s)
  \/ \E s \in 1..Len(tasks) : GcpStop(s)

\* the line-protocol receiver
F5 == \E s \in 1..Len(tasks) : F5Start(s)

\* the mesh-extension reconciler
Mesh ==
  \/ \E s \in 1..Len(tasks) : MeshStart(s)
  \/ \E s \in 1..Len(tasks) : MeshCreate(s)
  \/ \E s \in 1..Len(tasks) : MeshStop(s)

\* a configuration change and its handling
Reload ==
  \/ ConfigChangeTo(Configs)
  \/ RunReload

\* the whole program and its environment
Next ==
  \/ Startup
  \/ FanOut
  \/ Exporters
  \/ PassiveIngest
  \/ Kong
  \/ Gcp
  \/ F5
  \/ Mesh
  \/ Reload
  \/ Signal
  \/ Handlers
  \/ Shutdown
  \/ ConfigChangeRejected

Spec == Init /\ [][Next]_vars

\* ---------------------------------------------------------------------
\* The pipeline: passive ingestion only, no configuration change.
InitPipeline == Init /\ cfg.recv = "web" /\ NoWebhooks

NextPipeline ==
  \/ Startup
  \/ FanOut
  \/ Exporters
  \/ PassiveIngest
  \/ Signal
  \/ Handlers
  \/ Shutdown

SpecPipeline == InitPipeline /\ [][NextPipeline]_vars

\* fan-out is scheduled; the exporters are not assumed to run
FairPipeline ==
  /\ SpecPipeline
  /\ WF_vars(FanOutRecv)
  /\ WF_vars(FanOutSendGrpc)
  /\ WF_vars(FanOutSendHttp)

\* event e is in queue q
InQueue(e, q) == \E i \in 1..Len(q) : q[i] = e

RECURSIVE IsSubseq(_, _)
\* a is b with some elements left out
IsSubseq(a, b) ==
  IF a = << >> THEN TRUE
  ELSE IF b = << >> THEN FALSE
  ELSE IF Head(a) = Head(b) THEN IsSubseq(Tail(a), Tail(b))
  ELSE IsSubseq(a, Tail(b))

\* no element of a occurs twice
NoDup(a) == \A i, j \in 1..Len(a) : a[i] = a[j] => i = j

\* C1: fan-out independence. Each of the two non-blocking sends of a fan-out
\* step decides on the fill state of its own queue alone: a full queue is
\* left as it is and its drop counter grows by one, a queue with room gets
\* the event appended and its drop counter stays; the other queue and the
\* other counter are not touched by that send.
C1_FanOutIndependence ==
  [][ /\ (foPc = "grpc" /\ foPc' = "http") =>
           /\ IF Len(GrpcEvents) = QueueCap
                THEN /\ GrpcEvents' = GrpcEvents
                     /\ stats'.grpcDrop = stats.grpcDrop + 1
                ELSE /\ GrpcEvents' = Append(GrpcEvents, foEv)
                     /\ stats'.grpcDrop = stats.grpcDrop
           /\ HttpEvents' = HttpEvents
           /\ stats'.httpDrop = stats.httpDrop
      /\ (foPc = "http" /\ foPc' = "select") =>
           /\ IF Len(HttpEvents) = QueueCap
                THEN /\ HttpEvents' = HttpEvents
                     /\ stats'.httpDrop = stats.httpDrop + 1
                ELSE /\ HttpEvents' = Append(HttpEvents, foEv)
                     /\ stats'.httpDrop = stats.httpDrop
           /\ GrpcEvents' = GrpcEvents
           /\ stats'.grpcDrop = stats.grpcDrop ]_vars

\* an event was dropped for the HTTP output and delivered to the gRPC output
C1_Witness ==
  /\ foPc = "select"
  /\ \E e \in 1..MaxEvents :
       InQueue(e, grpcPlaced) /\ InQueue(e, deqHist) /\ ~InQueue(e, httpPlaced)

\* C2: the ingestion path is not blocked by a slow consumer. While fan-out
\* runs and m.Ctx is not done, an event on the ingestion queue is eventually
\* dequeued, whatever the exporters do, and fan-out is back at its receive
\* after the two sends of a step.
C2_IngestionNeverBlocked ==
  /\ \A e \in 1..MaxEvents :
       (InQueue(e, ApiEvents) /\ foPc \in {"select", "grpc", "http"}
          /\ RootCtx \notin cancelled)
         ~> (~InQueue(e, ApiEvents) \/ RootCtx \in cancelled \/ ~Alive)
  /\ (foPc \in {"grpc", "http"}) ~> (foPc = "select" \/ ~Alive)

\* fan-out dequeued every event although both outputs were full and no
\* exporter ever popped
C2_Witness ==
  /\ stats.inCount = MaxEvents
  /\ stats.grpcDrop > 0
  /\ stats.httpDrop > 0
  /\ grpcPopped = << >>
  /\ httpPopped = << >>
  /\ foPc = "select"

\* C4: per-output FIFO. What was placed on an output queue is a subsequence
\* of the dequeue order without repetition, the queue holds the placed events
\* not yet popped in that order, and the exporter popped a prefix of them.
C4_PerOutputFifo ==
  /\ IsSubseq(grpcPlaced, deqHist) /\ NoDup(grpcPlaced)
  /\ IsSubseq(httpPlaced, deqHist) /\ NoDup(httpPlaced)
  /\ grpcPlaced = grpcPopped \o GrpcEvents
  /\ httpPlaced = httpPopped \o HttpEvents

\* the gRPC exporter popped two events after a later one was dropped for it
C4_Witness ==
  /\ Len(grpcPopped) >= 2
  /\ stats.grpcDrop > 0
  /\ Len(deqHist) > Len(grpcPlaced)

\* ---------------------------------------------------------------------
\* The end-to-end scenario: the HTTP exporter never pops, the gRPC exporter
\* keeps up (fan-out takes the next event only when the gRPC queue has room).
ScenarioRecv == HasRoom(GrpcEvents) /\ FanOutRecv

NextScenario ==
  \/ Startup
  \/ ScenarioRecv
  \/ FanOutSendGrpc
  \/ FanOutSendHttp
  \/ GrpcExporterPop
  \/ PassiveIngest
  \/ Signal
  \/ Handlers
  \/ Shutdown

SpecScenario == InitPipeline /\ [][NextScenario]_vars

NextReload ==
  \/ Startup
  \/ FanOut
  \/ Exporters
  \/ PassiveIngest
  \/ Kong
  \/ Gcp
  \/ F5
  \/ Mesh
  \/ Reload

InitReload == Init /\ NoWebhooks

SpecReload == InitReload /\ [][NextReload]_vars

\* the receiver scopes of one run: the first and one more per reload
Scopes == 1..(MaxReloads + 1)

\* a step of the receiver task of scope s itself (not of its peers)
TaskStep(s) ==
  /\ s \in 1..Len(tasks)
  /\ \/ KongStart(s) \/ KongStop(s)
     \/ GcpStart(s) \/ GcpPush(s) \/ GcpStop(s)
     \/ F5Start(s)
     \/ MeshStart(s) \/ MeshCreate(s) \/ MeshStop(s)

\* reloads with exporters that never pop
NextReloadTasks ==
  \/ Startup
  \/ FanOut
  \/ PassiveIngest
  \/ Kong
  \/ Gcp
  \/ F5
  \/ Mesh
  \/ Reload

SpecReloadTasks == InitReload /\ [][NextReloadTasks]_vars

\* the orchestrator, fan-out and every receiver task are scheduled; the
\* peers and the configuration file are not assumed to act
FairReload ==
  /\ SpecReloadTasks
  /\ WF_vars(Startup)
  /\ WF_vars(RunReload)
  /\ WF_vars(FanOutRecv)
  /\ WF_vars(FanOutSendGrpc)
  /\ WF_vars(FanOutSendHttp)
  /\ \A s \in Scopes : WF_vars(TaskStep(s))

\* the reload branch of Manager.run is taken
ReloadStep == mgrPc = "running" /\ watcherPc = "sending" /\ watcherPc' = "idle"

\* C5: a configuration reload leaves fan-out and exporters untouched. The
\* reload step cancels the receiver scope and nothing else: m.Ctx, the
\* fan-out task, the two exporter tasks, the servers, the three queues with
\* their contents and the counters are as before the step.
C5_ReloadFrame ==
  [][ ReloadStep =>
        /\ cancelled' = cancelled \cup {CurScope}
        /\ (RootCtx \in cancelled') = (RootCtx \in cancelled)
        /\ UNCHANGED << foPc, foEv, stats, grpcExpPc, httpExpPc, httpSrvPc,
                        grpcSrvPc, ApiEvents, GrpcEvents, HttpEvents, closed >>
    ]_vars

\* a reload was handled while events were in all three queues
C5_Witness ==
  /\ changes = 1
  /\ Len(tasks) = 2
  /\ watcherPc = "idle"
  /\ ApiEvents # << >>
  /\ GrpcEvents # << >>
  /\ HttpEvents # << >>
  /\ foPc = "select"
  /\ 1 \in cancelled

InitReconciler == Init /\ cfg.recv = "mesh" /\ NoWebhooks

\* the configurations the file of a mesh deployment is changed to
MeshTargets == { [recv |-> "mesh", tag |-> 2], [recv |-> "web", tag |-> 1] }

NextReconciler ==
  \/ Startup
  \/ Mesh
  \/ ClusterApply
  \/ ClusterDelete
  \/ ConfigChangeTo(MeshTargets)
  \/ RunReload
  \/ FirstSignal
  \/ \E h \in 1..Len(handlers) : HandlerCancel(h)
  \/ Shutdown

SpecReconciler == InitReconciler /\ [][NextReconciler]_vars

\* C11: reconciler delete reports absence. A deleteWasmPlugin with the
\* resource in the cluster removes it and returns no error; with no resource
\* it returns the not-found error and leaves the cluster as it was; in both
\* cases the reconciler that called it returns and releases the wait group.
C11_DeleteReportsAbsence ==
  [][ \A s \in Scopes :
        (s <= Len(tasks) /\ tasks[s].kind = "mesh" /\ tasks[s].pc = "blocked"
           /\ tasks'[s].pc # "blocked") =>
          /\ tasks'[s].pc = "done"
          /\ wg' = wg - 1
          /\ wasmPlugins' = << >>
          /\ tasks'[s].err = IF wasmPlugins = << >> THEN "NotFound" ELSE "nil"
    ]_vars

\* one reconciler deleted the resource without error and another found it
\* absent, reported that and returned
C11_Witness ==
  /\ Len(tasks) = 2
  /\ tasks[1].kind = "mesh" /\ tasks[1].pc = "done"
  /\ tasks[2].kind = "mesh" /\ tasks[2].pc = "done"
  /\ {tasks[1].err, tasks[2].err} = {"nil", "NotFound"}
  /\ wasmPlugins = << >>

\* C10: reconciler create is idempotent. A createWasmPlugin with no resource
\* in the cluster leaves exactly one resource, with the spec of the caller's
\* configuration, and returns no error; a createWasmPlugin with the resource
\* in the cluster returns no error and leaves that resource as it was.
C10_CreateIdempotent ==
  [][ \A s \in Scopes :
        (s <= Len(tasks) /\ tasks[s].kind = "mesh" /\ tasks[s].pc = "create"
           /\ tasks'[s].pc # "create") =>
          /\ tasks'[s].pc = "blocked"
          /\ tasks'[s].err = "nil"
          /\ Len(wasmPlugins') = 1
          /\ wasmPlugins = << >> => wasmPlugins' = << tasks[s].tag >>
          /\ wasmPlugins # << >> => wasmPlugins' = wasmPlugins ]_vars

\* a create found the resource of an earlier create, with another spec, and
\* left it
C10_Witness ==
  \E s \in Scopes :
    /\ s <= Len(tasks)
    /\ tasks[s].kind = "mesh"
    /\ tasks[s].pc = "blocked"
    /\ Len(wasmPlugins) = 1
    /\ wasmPlugins # << tasks[s].tag >>

\* ---------------------------------------------------------------------
\* Graceful shutdown: a pull-subscription receiver, one reload to the Kong
\* receiver, one termination signal.
InitShutdown == Init /\ cfg.recv = "gcp" /\ NoWebhooks

\* the configuration the file is changed to
ReloadTargets == { [recv |-> "kong", tag |-> 1] }

NextShutdown ==
  \/ Startup
  \/ FanOut
  \/ Exporters
  \/ Gcp
  \/ Kong
  \/ ConfigChangeTo(ReloadTargets)
  \/ RunReload
  \/ FirstSignal
  \/ \E h \in 1..Len(handlers) : HandlerCancel(h)
  \/ Shutdown

SpecShutdown == InitShutdown /\ [][NextShutdown]_vars

\* C7: queues are closed only after their producers have exited. When the
\* ingestion queue is closed every receiver task has returned and no push is
\* pending, when the output queues are closed fan-out has returned, when the
\* configuration channel is closed the watcher callback is not sending on
\* it, and no send on a closed channel (a panic) has happened.
C7_CloseAfterProducers ==
  /\ "api" \in closed =>
       \A s \in 1..Len(tasks) :
         tasks[s].pc \in {"none", "done"} /\ tasks[s].push = 0
  /\ ("grpc" \in closed \/ "http" \in closed) => foPc \in {"none", "done"}
  /\ "config" \in closed => watcherPc # "sending"
  /\ ~panicked

\* draining without reloads: one signal, the pull-subscription receiver
NextDrain ==
  \/ Startup
  \/ FanOut
  \/ Gcp
  \/ FirstSignal
  \/ \E h \in 1..Len(handlers) : HandlerCancel(h)
  \/ Shutdown

SpecDrain == InitShutdown /\ [][NextDrain]_vars

\* every task of the program is scheduled, and a select with a ready
\* cancellation case takes it in the end; peers and exporter pops are not
\* assumed
FairDrain ==
  /\ SpecDrain
  /\ WF_vars(Startup)
  /\ WF_vars(FanOutRecv)
  /\ WF_vars(FanOutSendGrpc)
  /\ WF_vars(FanOutSendHttp)
  /\ SF_vars(FanOutCancel)
  /\ WF_vars(GrpcExporterCancel)
  /\ WF_vars(HttpExporterCancel)
  /\ WF_vars(RunShutdown)
  /\ WF_vars(RunWaitAndClose)
  /\ WF_vars(\E h \in 1..Len(handlers) : HandlerCancel(h))
  /\ \A s \in Scopes : WF_vars(TaskStep(s))

InitSignals == Init /\ cfg.recv \in {"web", "kong"} /\ NoWebhooks

NextSignals ==
  \/ Startup
  \/ Kong
  \/ ConfigChangeTo(ReloadTargets)
  \/ RunReload
  \/ Signal
  \/ Handlers
  \/ Shutdown

SpecSignals == InitSignals /\ [][NextSignals]_vars

\* C9: the second signal forces the exit, the first never does. The process
\* is ended by a handler only after two signals, whatever the number of
\* handlers; while the orchestrator drains after a second signal the forced
\* exit is ready to be taken whatever the wait group counts; and the step
\* that ends the process closes no queue and waits for no task.
C9_SecondSignalExits ==
  /\ [](procExit => sigCount >= 2)
  /\ []((Alive /\ mgrPc = "waiting" /\ sigCount >= 2) =>
          \E h \in 1..Len(handlers) : ENABLED HandlerExit(h))
  /\ [][ procExit' /\ ~procExit =>
           UNCHANGED << closed, wg, tasks, mgrPc, foPc, grpcExpPc, httpExpPc,
                        cancelled >> ]_vars

\* the process was ended by the handler while a receiver task and fan-out
\* were still to exit and no queue was closed, with three handlers installed
C9_Witness ==
  /\ procExit
  /\ sigCount = 2
  /\ mgrPc = "waiting"
  /\ wg > 0
  /\ closed = {}
  /\ Len(handlers) = 3

\* ------------------------------------------------ line protocol: strings
\* A string is a sequence of one-character strings; a string index is the
\* 0-based byte offset of the program.

\* strings.Index(s, t): offset of the first occurrence of t in s, -1 if none
Index(s, t) ==
  LET hits == { i \in 1..(Len(s) - Len(t) + 1) : SubSeq(s, i, i + Len(t) - 1) = t }
  IN  IF hits = {} THEN -1
      ELSE (CHOOSE i \in hits : \A j \in hits : i <= j) - 1

\* strings.Contains(s, t)
Contains(s, t) == Index(s, t) >= 0

\* s[a:]
SliceFrom(s, a) == SubSeq(s, a + 1, Len(s))

\* s[:b]
SliceTo(s, b) == SubSeq(s, 1, b)

\* s[a:b] is defined for 0 <= a <= b <= len(s) and panics otherwise
SliceOk(s, a, b) == 0 <= a /\ a <= b /\ b <= Len(s)

\* s[a:b]
Slice(s, a, b) == SubSeq(s, a + 1, b)

\* the characters strings.TrimSpace removes that a scanned line can hold
WhiteSpace == {" ", "\t", "\r"}

RECURSIVE TrimLeft(_, _)
\* strings.TrimLeft(s, cutset)
TrimLeft(s, cutset) ==
  IF s # << >> /\ Head(s) \in cutset THEN TrimLeft(Tail(s), cutset) ELSE s

RECURSIVE TrimRight(_, _)
\* strings.TrimRight(s, cutset)
TrimRight(s, cutset) ==
  IF s # << >> /\ s[Len(s)] \in cutset
    THEN TrimRight(SubSeq(s, 1, Len(s) - 1), cutset)
    ELSE s

\* strings.Trim(s, cutset)
Trim(s, cutset) == TrimRight(TrimLeft(s, cutset), cutset)

\* strings.TrimSpace(s)
TrimSpace(s) == Trim(s, WhiteSpace)

RECURSIVE Split(_, _)
\* strings.Split(s, sep) for a non-empty separator
Split(s, sep) ==
  LET i == Index(s, sep)
  IN  IF i < 0 THEN << s >>
      ELSE << SliceTo(s, i) >> \o Split(SliceFrom(s, i + Len(sep)), sep)

\* strings.SplitN(s, sep, 2)
SplitN2(s, sep) ==
  LET i == Index(s, sep)
  IN  IF i < 0 THEN << s >>
      ELSE << SliceTo(s, i), SliceFrom(s, i + Len(sep)) >>

RECURSIVE Join(_, _)
\* strings.Join(parts, sep)
Join(parts, sep) ==
  IF parts = << >> THEN << >>
  ELSE IF Len(parts) = 1 THEN parts[1]
  ELSE parts[1] \o sep \o Join(Tail(parts), sep)

\* ------------------------------------------------ line protocol: integers
\* A machine integer is held as the unsigned value of its bit pattern,
\* written as decimal digits, most significant first, without leading zeros.

RECURSIVE Norm(_)
Norm(a) == IF a # << >> /\ Head(a) = 0 THEN Norm(Tail(a)) ELSE a

\* a < b
BigLess(a, b) ==
  \/ Len(a) < Len(b)
  \/ /\ Len(a) = Len(b)
     /\ \E i \in 1..Len(a) : a[i] < b[i] /\ \A j \in 1..(i - 1) : a[j] = b[j]

\* a written with n digits
Pad(a, n) == [i \in 1..n |-> IF i <= n - Len(a) THEN 0 ELSE a[i - (n - Len(a))]]

\* a + b
BigAdd(a, b) ==
  LET n == (IF Len(a) > Len(b) THEN Len(a) ELSE Len(b)) + 1
      x == Pad(a, n)
      y == Pad(b, n)
      carry[i \in 0..n] ==
        IF i = 0 THEN 0 ELSE (x[n - i + 1] + y[n - i + 1] + carry[i - 1]) \div 10
  IN  Norm([p \in 1..n |-> (x[p] + y[p] + carry[n - p]) % 10])

\* a - b for a >= b
BigSub(a, b) ==
  LET n == Len(a)
      y == Pad(b, n)
      borrow[i \in 0..n] ==
        IF i = 0 THEN 0
        ELSE IF a[n - i + 1] - y[n - i + 1] - borrow[i - 1] < 0 THEN 1 ELSE 0
  IN  Norm([p \in 1..n |-> (a[p] - y[p] - borrow[n - p] + 10) % 10])

RECURSIVE Reduce(_, _)
\* c - k*m for the k with 0 <= c - k*m < m (the test on the length has the
\* difference computed before the next round; it never fails)
Reduce(c, m) ==
  IF BigLess(c, m) THEN c
  ELSE LET d == BigSub(c, m)
       IN  IF Len(d) <= Len(c) THEN Reduce(d, m) ELSE << >>

RECURSIVE RemFrom(_, _, _)
\* long division, digit by digit: the remainder of the digits read so far
RemFrom(a, m, cur) ==
  IF a = << >> THEN cur
  ELSE LET c == Reduce(Norm(cur \o << Head(a) >>), m)
       IN  IF Len(c) <= Len(m) THEN RemFrom(Tail(a), m, c) ELSE << >>

\* a mod m
BigRem(a, m) == RemFrom(a, m, << >>)

\* 2^64, 2^63, 2^63 - 1 and 2^32
TwoTo64 == << 1,8,4,4,6,7,4,4,0,7,3,7,0,9,5,5,1,6,1,6 >>
TwoTo63 == << 9,2,2,3,3,7,2,0,3,6,8,5,4,7,7,5,8,0,8 >>
MaxInt64 == << 9,2,2,3,3,7,2,0,3,6,8,5,4,7,7,5,8,0,7 >>
TwoTo32 == << 4,2,9,4,9,6,7,2,9,6 >>

DigitChars == << "0", "1", "2", "3", "4", "5", "6", "7", "8", "9" >>
IsDigit(c) == \E i \in 1..10 : DigitChars[i] = c
DigitVal(c) == (CHOOSE i \in 1..10 : DigitChars[i] = c) - 1

\* strconv.ParseInt(s, 10, 64) with its error dropped: 0 on a syntax error,
\* the nearest bound on a range error
ParseInt(s) ==
  LET signed == s # << >> /\ Head(s) \in {"+", "-"}
      neg == s # << >> /\ Head(s) = "-"
      body == IF signed THEN Tail(s) ELSE s
      mag == Norm([i \in 1..Len(body) |-> DigitVal(body[i])])
  IN  IF body = << >> \/ \E i \in 1..Len(body) : ~IsDigit(body[i]) THEN << >>
      ELSE IF ~neg THEN (IF BigLess(MaxInt64, mag) THEN MaxInt64 ELSE mag)
      ELSE IF BigLess(TwoTo63, mag) THEN TwoTo63
      ELSE IF mag = << >> THEN << >>
      ELSE BigSub(TwoTo64, mag)

\* strconv.Atoi(s) with its error dropped (int has 64 bits)
Atoi(s) == ParseInt(s)

\* int32(x)
ToInt32(x) == BigRem(x, TwoTo32)

\* x - y on int64
SubInt64(x, y) == IF BigLess(x, y) THEN BigSub(BigAdd(x, TwoTo64), y) ELSE BigSub(x, y)

\* x * 1_000_000 without the reduction to 64 bits
MulMillionExact(x) == Norm(x \o << 0, 0, 0, 0, 0, 0 >>)

\* uint64(x * 1_000_000) on int64
MulMillion(x) == BigRem(Norm(x \o << 0, 0, 0, 0, 0, 0 >>), TwoTo64)

\* ------------------------------------------------- line protocol: base64
\* A body is a sequence of byte values.
B64Alphabet ==
  << "A","B","C","D","E","F","G","H","I","J","K","L","M","N","O","P",
     "Q","R","S","T","U","V","W","X","Y","Z","a","b","c","d","e","f",
     "g","h","i","j","k","l","m","n","o","p","q","r","s","t","u","v",
     "w","x","y","z","0","1","2","3","4","5","6","7","8","9","+","/" >>
IsB64(c) == \E i \in 1..64 : B64Alphabet[i] = c
B64Val(c) == (CHOOSE i \in 1..64 : B64Alphabet[i] = c) - 1

\* the bytes of one quantum of four characters, none if it is malformed
Quantum(q) ==
  LET v(i) == B64Val(q[i])
      n3 == ((v(1) * 64 + v(2)) * 64 + v(3)) * 64 + v(4)
      n2 == (v(1) * 64 + v(2)) * 64 + v(3)
      n1 == v(1) * 64 + v(2)
  IN  IF \A i \in 1..4 : IsB64(q[i])
        THEN << n3 \div 65536, (n3 \div 256) % 256, n3 % 256 >>
      ELSE IF IsB64(q[1]) /\ IsB64(q[2]) /\ IsB64(q[3]) /\ q[4] = "="
        THEN << n2 \div 1024, (n2 \div 4) % 256 >>
      ELSE IF IsB64(q[1]) /\ IsB64(q[2]) /\ q[3] = "=" /\ q[4] = "="
        THEN << n1 \div 16 >>
      ELSE << >>

RECURSIVE DecodeFrom(_, _)
DecodeFrom(s, raw) ==
  IF s = << >> THEN [raw |-> raw, err |-> FALSE]
  ELSE IF Len(s) < 4 THEN [raw |-> raw, err |-> TRUE]
  ELSE LET q == Quantum(SubSeq(s, 1, 4))
       IN  IF q = << >> THEN [raw |-> raw, err |-> TRUE]
           ELSE IF Len(q) < 3 /\ Len(s) > 4 THEN [raw |-> raw \o q, err |-> TRUE]
           ELSE DecodeFrom(SubSeq(s, 5, Len(s)), raw \o q)

\* base64.StdEncoding.DecodeString(s): the bytes decoded before the first
\* malformed quantum, and whether there was one
DecodeString(s) == DecodeFrom(s, << >>)

RECURSIVE EncodeToString(_)
\* base64.StdEncoding.EncodeToString(b)
EncodeToString(b) ==
  LET ch(v) == B64Alphabet[v + 1]
  IN  IF b = << >> THEN << >>
      ELSE IF Len(b) = 1
        THEN << ch(b[1] \div 4), ch((b[1] % 4) * 16), "=", "=" >>
      ELSE IF Len(b) = 2
        THEN << ch(b[1] \div 4), ch((b[1] % 4) * 16 + b[2] \div 16),
                ch((b[2] % 16) * 4), "=" >>
      ELSE << ch(b[1] \div 4), ch((b[1] % 4) * 16 + b[2] \div 16),
              ch((b[2] % 16) * 4 + b[3] \div 64), ch(b[3] % 64) >>
           \o EncodeToString(SubSeq(b, 4, Len(b)))

\* ------------------------------------------------- line protocol: parser
DELIM == << "_", "_" >>
HslStartWord == DELIM \o << "H","S","L","_","S","T","A","R","T" >> \o DELIM
HSL_START ==
  HslStartWord \o << " " >> \o HslStartWord \o << " " >> \o HslStartWord
    \o << " " >> \o HslStartWord \o << " " >> \o HslStartWord \o << " " >>
    \o HslStartWord
HSL_END == DELIM \o << "H","S","L","_","E","N","D" >> \o DELIM
REQHS == DELIM \o << "R","E","Q","H","S" >> \o DELIM
REQHE == DELIM \o << "R","E","Q","H","E" >> \o DELIM
HEAN == DELIM \o << "H","E","A","N" >> \o DELIM
HEAV == DELIM \o << "H","E","A","V" >> \o DELIM
RESPHS == DELIM \o << "R","E","S","P","H","S" >> \o DELIM
RESPHE == DELIM \o << "R","E","S","P","H","E" >> \o DELIM
REQPS == DELIM \o << "R","E","Q","P","S" >> \o DELIM
REQPE == DELIM \o << "R","E","Q","P","E" >> \o DELIM

\* the package-level logger of the receiver: declared, never assigned
logger == "nil"

\* a method call on a *zap.SugaredLogger: a nil receiver is dereferenced
LogPanics(l) == l = "nil"

\* a map with key k set to v
Put(m, k, v) == [x \in DOMAIN m \cup {k} |-> IF x = k THEN v ELSE m[x]]

\* make(map[string]string)
EmptyMap == [x \in {} |-> << >>]

\* the loop of extractHeaders cut short after the first section
HeaderMapFirstOnly(sections, out) ==
  IF sections = << >> THEN out
  ELSE LET sec == Head(sections)
           kv == SplitN2(sec, HEAV)
       IN  IF ~Contains(sec, HEAV) \/ Len(kv) # 2 THEN out
           ELSE Put(out, Trim(TrimSpace(kv[1]), {"_"}),
                    Trim(TrimSpace(kv[2]), {"_"}))

RECURSIVE HeaderMap(_, _)
\* the loop of extractHeaders over the sections of the header part
HeaderMap(sections, out) ==
  IF sections = << >> THEN out
  ELSE LET sec == Head(sections)
           kv == SplitN2(sec, HEAV)
           key == Trim(TrimSpace(kv[1]), {"_"})
           val == Trim(TrimSpace(kv[2]), {"_"})
       IN  IF ~Contains(sec, HEAV) \/ Len(kv) # 2
             THEN HeaderMap(Tail(sections), out)
             ELSE HeaderMap(Tail(sections), Put(out, key, val))

\* extractHeaders(s, startTag, endTag): the map and the text after the section
extractHeaders(s, startTag, endTag) ==
  LET startIdx == Index(s, startTag)
      tmp == SliceFrom(s, startIdx + Len(startTag))
      endIdx == Index(tmp, endTag)
      headerPart == SliceTo(tmp, endIdx)
      rest == SliceFrom(tmp, endIdx + Len(endTag))
  IN  IF startIdx < 0 THEN [out |-> EmptyMap, rest |-> s]
      ELSE IF endIdx < 0 THEN [out |-> EmptyMap, rest |-> s]
      ELSE [out |-> HeaderMap(Split(headerPart, HEAN), EmptyMap), rest |-> rest]

\* the names of the pseudo-headers
HScheme == << ":", "s", "c", "h", "e", "m", "e" >>
HPath == << ":", "p", "a", "t", "h" >>
HMethod == << ":", "m", "e", "t", "h", "o", "d" >>
HQuery == << ":", "q", "u", "e", "r", "y" >>
HStatus == << ":", "s", "t", "a", "t", "u", "s" >>

\* outcomes of parseF5LogLine that are not an event
ParseNil == [out |-> "nil"]
ParsePanic == [out |-> "panic"]

\* the body of parseF5LogLine from the field extraction on
ParseFields(parts) ==
  LET sourcePort == Atoi(parts[6])
      destPort == Atoi(parts[8])
      reqTime == ParseInt(parts[11])
      respTime == ParseInt(parts[12])
      rest0 == Join(SubSeq(parts, 13, Len(parts)), << " " >>)
      req == extractHeaders(rest0, REQHS, REQHE)
      reqHeaders ==
        Put(Put(Put(Put(req.out, HScheme, parts[1]), HPath, parts[2]),
                HMethod, parts[3]), HQuery, parts[4])
      resp == extractHeaders(req.rest, RESPHS, RESPHE)
      respHeaders == Put(resp.out, HStatus, parts[10])
      rest == resp.rest
      psIdx == Index(rest, REQPS)
      psTmp == SliceFrom(rest, psIdx + Len(REQPS))
      psEnd == Index(psTmp, REQPE)
      reqBody ==
        IF psIdx >= 0 /\ psEnd >= 0
          THEN DecodeString(TrimSpace(SliceTo(psTmp, psEnd))).raw
          ELSE << >>
      peIdx == Index(rest, REQPE)
      respDec == DecodeString(TrimSpace(SliceFrom(rest, peIdx + Len(REQPE))))
      respBody == IF peIdx >= 0 THEN respDec.raw ELSE << >>
  IN  IF Len(parts) < 12 THEN ParsePanic
      ELSE IF peIdx >= 0 /\ respDec.err /\ LogPanics(logger) THEN ParsePanic
      ELSE [out |-> "event",
            timestamp |-> reqTime,
            srcIp |-> parts[5], srcPort |-> ToInt32(sourcePort),
            dstIp |-> parts[7], dstPort |-> ToInt32(destPort),
            reqHeaders |-> reqHeaders, reqBody |-> reqBody,
            respHeaders |-> respHeaders, respBody |-> respBody,
            latency |-> MulMillion(SubInt64(respTime, reqTime)),
            protocol |-> parts[9]]

\* the field-count test of parseF5LogLine
TooFewFields(parts) == Len(parts) < 10

\* a field-count test that asks for the twelve fields the parser reads
TooFewFieldsTwelve(parts) == Len(parts) < 12

\* parseF5LogLine(line)
parseF5LogLine(line) ==
  LET start == Index(line, HSL_START)
      end == Index(line, HSL_END)
      from == start + Len(HSL_START)
      parts == Split(TrimSpace(Slice(line, from, end)), << " " >>)
  IN  IF start < 0 \/ end < 0
        THEN (IF LogPanics(logger) THEN ParsePanic ELSE ParseNil)
      ELSE IF ~SliceOk(line, from, end) THEN ParsePanic
      ELSE IF TooFewFields(parts)
        THEN (IF LogPanics(logger) THEN ParsePanic ELSE ParseNil)
      ELSE ParseFields(parts)

\* --------------------------------------------- line protocol: handleConn
\* handleConn, lines 60-62: scanner.Scan() returned a line and
\* parseF5LogLine ran on it; a panic ends the process
HandleConnScan ==
  /\ Alive
  /\ conn.pc = "scan"
  /\ conn.read < Len(conn.lines)
  /\ LET r == parseF5LogLine(conn.lines[conn.read + 1])
     IN  /\ conn' = [conn EXCEPT !.read = @ + 1,
                                 !.ev = r,
                                 !.pc = CASE r.out = "event" -> "push"
                                          [] r.out = "panic" -> "closed"
                                          [] OTHER -> "scan"]
         /\ panicked' = (r.out = "panic")
  /\ UNCHANGED << webhooks, sends, sendLog, extVars, mgrVars, cancelled, sigVars, wg,
                  queueVars, foVars, expVars, srvVars, watchVars, tasks,
                  wasmPlugins, procExit, histVars >>

\* handleConn, lines 63-65: apiEventsChan <- event
HandleConnPush ==
  /\ Alive
  /\ conn.pc = "push"
  /\ PushApiEvent
  /\ conn' = IF panicked' THEN [conn EXCEPT !.pc = "closed"]
             ELSE [conn EXCEPT !.pc = "scan", !.pushed = Append(@, conn.ev)]
  /\ UNCHANGED << webhooks, sends, sendLog, tlsVars, entryVars, subs, msgs, mgrVars,
                  cancelled, sigVars, wg, foVars, expVars, srvVars, watchVars,
                  tasks, wasmPlugins, procExit, histVars >>

\* handleConn, lines 57 and 60: scanner.Scan() is false at the end of the
\* stream, the function returns and the deferred conn.Close() runs
HandleConnClose ==
  /\ Alive
  /\ conn.pc = "scan"
  /\ conn.read = Len(conn.lines)
  /\ conn' = [conn EXCEPT !.pc = "closed"]
  /\ UNCHANGED << webhooks, sends, sendLog, extVars, mgrVars, cancelled, sigVars, wg,
                  queueVars, foVars, expVars, srvVars, watchVars, tasks,
                  wasmPlugins, procExit, panicked, histVars >>

\* the steps of handleConn
HandleConn ==
  \/ HandleConnScan
  \/ HandleConnPush
  \/ HandleConnClose

\* handleConn was started on a connection that will deliver these lines;
\* built remembers what a well-formed line was encoded from
Serving(lines, built) ==
  [pc |-> "scan", lines |-> lines, ev |-> ParseNil, read |-> 0,
   pushed |-> << >>, built |-> built]

\* ------------------------------------------------ line protocol: inputs
\* one line of the stream: twelve positional fields, two header sections
\* (sequences of key/value pairs) and two bodies
RECURSIVE EncodeHeaders(_)
EncodeHeaders(hs) ==
  IF hs = << >> THEN << >>
  ELSE IF Len(hs) = 1 THEN hs[1][1] \o HEAV \o hs[1][2]
  ELSE hs[1][1] \o HEAV \o hs[1][2] \o HEAN \o EncodeHeaders(Tail(hs))

\* the sections after the positional fields, in the fixed order
EncodeSections(x) ==
  REQHS \o EncodeHeaders(x.reqH) \o REQHE \o << " " >>
    \o RESPHS \o EncodeHeaders(x.respH) \o RESPHE \o << " " >>
    \o REQPS \o EncodeToString(x.reqBody) \o REQPE
    \o EncodeToString(x.respBody)

\* the content between the sentinels
EncodePayload(x) == Join(x.fields, << " " >>) \o << " " >> \o EncodeSections(x)

\* a well-formed line
EncodeLine(x) ==
  HSL_START \o << " " >> \o EncodePayload(x) \o << " " >> \o HSL_END

\* a line whose content between the sentinels is these fields and nothing else
FieldsLine(fields) ==
  HSL_START \o << " " >> \o Join(fields, << " " >>) \o << " " >> \o HSL_END

Http == << "h", "t", "t", "p" >>
Get == << "G", "E", "T" >>
Ip1 == << "1", "0", ".", "0", ".", "0", ".", "1" >>
Ip2 == << "1", "0", ".", "0", ".", "0", ".", "2" >>

\* the positional fields of the sample line with request time q and
\* response time r
SampleFields(q, r) ==
  << Http, << "/", "a" >>, Get, << "x", "=", "1" >>, Ip1, << "8", "0" >>, Ip2,
     << "4", "4", "3" >>, << "H", "T", "T", "P" >>, << "2", "0", "0" >>, q, r >>

T1000 == << "1", "0", "0", "0" >>
T1050 == << "1", "0", "5", "0" >>

\* the sample line
Sample ==
  [fields |-> SampleFields(T1000, T1050),
   reqH |-> << << << "k" >>, << "v" >> >> >>,
   respH |-> << << << "c" >>, << "d" >> >> >>,
   reqBody |-> << 97 >>, respBody |-> << 98, 99 >>]

\* lines that lack the start sentinel, the end sentinel or both
NoSentinelLines ==
  { << >>,
    Join(Sample.fields, << " " >>),
    HSL_START \o << " " >> \o EncodePayload(Sample),
    EncodePayload(Sample) \o << " " >> \o HSL_END,
    HslStartWord \o << " " >> \o EncodePayload(Sample) \o << " " >> \o HSL_END }

\* lines with both sentinels and 0 to 11 positional fields between them
ShortLines == { FieldsLine(SubSeq(Sample.fields, 1, k)) : k \in 0..11 }

\* the end sentinel before the start sentinel
ReversedLine == HSL_END \o << " " >> \o HSL_START

\* a well-formed line but for a response body that is not base64
BadBodyLine ==
  HSL_START \o << " " >> \o EncodePayload(Sample) \o << "!" >> \o << " " >>
    \o HSL_END

\* the lines a connection delivers
ConnLines ==
  NoSentinelLines \cup ShortLines
    \cup { ReversedLine, BadBodyLine, EncodeLine(Sample) }

\* the streams of one or two lines
ConnStreams ==
  { << l >> : l \in ConnLines } \cup { << k, l >> : k, l \in ConnLines }

\* handleConn serving one connection of the line-protocol receiver
InitConn ==
  /\ InitProgram
  /\ cfg = [recv |-> "f5", tag |-> 1]
  /\ ~httpEnabled
  /\ webhooks = 0
  /\ targets = << >>
  /\ \E ls \in ConnStreams : conn = Serving(ls, << >>)
  /\ entry = NoEntry
  /\ apiEvent = NoEvent

NextConn == HandleConn

SpecConn == InitConn /\ [][NextConn]_vars

\* the line handleConn reads next
NextLine == conn.lines[conn.read + 1]

\* handleConn reads a line in this step
ReadsLine == conn.pc = "scan" /\ conn.read < Len(conn.lines) /\ conn' # conn

\* the line has no start sentinel or no end sentinel
LacksSentinel(line) == Index(line, HSL_START) < 0 \/ Index(line, HSL_END) < 0

\* the positional fields between the sentinels of a line that has both
FieldsOf(line) ==
  Split(TrimSpace(Slice(line, Index(line, HSL_START) + Len(HSL_START),
                        Index(line, HSL_END))), << " " >>)

\* the number of positional fields between the sentinels
FieldCount(line) ==
  IF FieldsOf(line) = << << >> >> THEN 0 ELSE Len(FieldsOf(line))

\* C13: a line that lacks the start or the end sentinel yields no event and
\* no push: parseF5LogLine returns nil, the ingestion queue is unchanged, the
\* process keeps running and handleConn goes on to the next line.
C13_MissingSentinelDropped ==
  [][ (ReadsLine /\ LacksSentinel(NextLine)) =>
        /\ conn'.ev = ParseNil
        /\ conn'.pc = "scan"
        /\ conn'.read = conn.read + 1
        /\ ApiEvents' = ApiEvents
        /\ ~panicked'
    ]_vars

\* C14: a line with fewer than 12 positional fields between the sentinels
\* (0 to 11) is dropped: parseF5LogLine returns nil, nothing is pushed, and
\* the parse does not abort, so handleConn goes on to the next line.
C14_ShortLineDropped ==
  [][ (ReadsLine /\ NextLine \in ShortLines /\ FieldCount(NextLine) < 12) =>
        /\ conn'.ev = ParseNil
        /\ conn'.pc = "scan"
        /\ ApiEvents' = ApiEvents
        /\ ~panicked'
    ]_vars

\* C17: a decode failure is never fatal: whatever line handleConn reads, the
\* process keeps running and handleConn stays in its loop, ready for the next
\* line of the connection.
C17_DecodeNeverFatal ==
  [][ ReadsLine => (~panicked' /\ conn'.pc \in {"scan", "push"}) ]_vars

\* ------------------------------------------- line protocol: round trip
\* header keys and values of the well-formed lines
HeaderKeys ==
  { << "k" >>, << "a", "_", "b" >>, << "_", "k" >>, << "k", "_" >>,
    << " ", "k" >>, << "k", " " >> }
HeaderVals ==
  { << "v" >>, << "a", " ", "b" >>, << >>, << "_", "v" >>, << "v", "_" >>,
    << " ", "v" >>, << "v", " " >> }

\* request and response times in milliseconds
Times ==
  { << "0" >>, T1000, T1050,
    << "1","8","4","4","6","7","4","4","0","7","3","7","0","9" >>,
    << "1","8","4","4","6","7","4","4","0","7","3","7","1","0" >> }

\* the value of a decimal numeral
Value(s) == Norm([i \in 1..Len(s) |-> DigitVal(s[i])])

\* the well-formed lines: the sample with one header section, a body or the
\* two times varied
BuiltLines ==
  { [Sample EXCEPT !.reqH = << << k, v >> >>] : k \in HeaderKeys, v \in HeaderVals }
    \cup { [Sample EXCEPT !.respH = << << k, v >> >>] :
             k \in HeaderKeys, v \in HeaderVals }
    \cup { [Sample EXCEPT !.reqH = << << << "k" >>, v >>, << << "l" >>, w >> >>] :
             v, w \in HeaderVals }
    \cup { [Sample EXCEPT !.reqH = << >>, !.respH = << >>, !.reqBody = b,
                          !.respBody = c] :
             b, c \in { << >>, << 97 >>, << 97, 98 >>, << 97, 98, 99 >>,
                        << 0, 255, 16, 131 >> } }
    \cup { [Sample EXCEPT !.fields = SampleFields(q, r)] :
             q, r \in Times }

\* handleConn serving a connection that delivers one well-formed line
InitBuilt ==
  /\ InitProgram
  /\ cfg = [recv |-> "f5", tag |-> 1]
  /\ ~httpEnabled
  /\ webhooks = 0
  /\ targets = << >>
  /\ \E x \in BuiltLines : conn = Serving(<< EncodeLine(x) >>, x)
  /\ entry = NoEntry
  /\ apiEvent = NoEvent

SpecBuilt == InitBuilt /\ [][NextConn]_vars

RECURSIVE MapOf(_)
\* the map a sequence of key/value pairs stands for
MapOf(hs) ==
  IF hs = << >> THEN EmptyMap
  ELSE Put(MapOf(SubSeq(hs, 1, Len(hs) - 1)), hs[Len(hs)][1], hs[Len(hs)][2])

\* the event a line built from x encodes, but for the times
Encoded(x) ==
  [srcIp |-> x.fields[5], srcPort |-> Value(x.fields[6]),
   dstIp |-> x.fields[7], dstPort |-> Value(x.fields[8]),
   protocol |-> x.fields[9],
   reqHeaders |->
     Put(Put(Put(Put(MapOf(x.reqH), HScheme, x.fields[1]), HPath, x.fields[2]),
             HMethod, x.fields[3]), HQuery, x.fields[4]),
   respHeaders |-> Put(MapOf(x.respH), HStatus, x.fields[10]),
   reqBody |-> x.reqBody, respBody |-> x.respBody]

\* the same fields of a parsed event
Decoded(ev) ==
  [srcIp |-> ev.srcIp, srcPort |-> ev.srcPort, dstIp |-> ev.dstIp,
   dstPort |-> ev.dstPort, protocol |-> ev.protocol,
   reqHeaders |-> ev.reqHeaders, respHeaders |-> ev.respHeaders,
   reqBody |-> ev.reqBody, respBody |-> ev.respBody]

\* the line was read
LineRead == conn.read = 1

\* the text neither begins nor ends with an underscore or white space
Unpadded(t) == Trim(t, WhiteSpace \cup {"_"}) = t

\* no header key or value of x begins or ends with a padding character
UnpaddedHeaders(x) ==
  /\ \A i \in 1..Len(x.reqH) : Unpadded(x.reqH[i][1]) /\ Unpadded(x.reqH[i][2])
  /\ \A i \in 1..Len(x.respH) : Unpadded(x.respH[i][1]) /\ Unpadded(x.respH[i][2])

\* the text without white space and then underscores at its two ends
Unpad(t) == Trim(Trim(t, WhiteSpace), {"_"})

\* x with every header key and value unpadded
TrimmedHeaders(x) ==
  [x EXCEPT
     !.reqH = [i \in 1..Len(x.reqH) |-> << Unpad(x.reqH[i][1]), Unpad(x.reqH[i][2]) >>],
     !.respH = [i \in 1..Len(x.respH) |-> << Unpad(x.respH[i][1]), Unpad(x.respH[i][2]) >>]]

\* C15: line-protocol round trip. For every well-formed line whose header
\* keys and values neither begin nor end with an underscore or white space,
\* parseF5LogLine returns an event whose pseudo-headers, header maps,
\* addresses, ports, protocol and bodies equal the encoded values; a key or
\* value with such padding comes back without it.
C15_RoundTripUnpadded ==
  /\ (LineRead /\ UnpaddedHeaders(conn.built)) =>
       (conn.ev.out = "event" /\ Decoded(conn.ev) = Encoded(conn.built))
  /\ LineRead =>
       (conn.ev.out = "event"
          /\ Decoded(conn.ev) = Encoded(TrimmedHeaders(conn.built)))

\* a line with two unpadded request headers, one with a space inside its
\* value, was parsed and its event pushed
C15_Witness ==
  /\ Len(conn.pushed) = 1
  /\ Len(conn.built.reqH) = 2
  /\ conn.built.reqH[1][2] = << "a", " ", "b" >>
  /\ UnpaddedHeaders(conn.built)

\* C15 as stated: the round trip is exact for every key and value of the
\* input set, those that begin or end with an underscore or a space included.
C15_RoundTrip ==
  LineRead => (conn.ev.out = "event" /\ Decoded(conn.ev) = Encoded(conn.built))

\* C16: for request time q and response time r with r >= q the latency of
\* the event is (r - q) * 1,000,000; q = 1000 and r = 1050 give 50,000,000.
C16_Latency ==
  LET q == Value(conn.built.fields[11])
      r == Value(conn.built.fields[12])
  IN  (LineRead /\ ~BigLess(r, q)) =>
        /\ conn.ev.out = "event"
        /\ conn.ev.latency = MulMillionExact(BigSub(r, q))
        /\ (conn.built.fields[11] = T1000 /\ conn.built.fields[12] = T1050) =>
             conn.ev.latency = << 5, 0, 0, 0, 0, 0, 0, 0 >>

\* ------------------------------------------------------ webhook exporter
\* the returns of the send goroutines
Sends == \E i \in 1..Len(sendLog) : \E outcome \in Outcomes : SendReturns(i, outcome)

\* the pipeline with the HTTP exporter enabled and 0 to MaxWebhooks targets,
\* fed by the passive-ingestion endpoint
InitExporter == Init /\ cfg.recv = "web" /\ httpEnabled

NextExporter ==
  \/ Startup
  \/ PassiveIngest
  \/ FanOut
  \/ HttpExporterPop
  \/ Sends

SpecExporter == InitExporter /\ [][NextExporter]_vars

\* the exporter pops an event in this step
Pops == httpPopped' # httpPopped

\* C18: webhook dispatch. Every event the HTTP exporter pops starts exactly
\* one send per configured target, each carrying that event, so the sends
\* started number W times the events popped; the pop does not wait for the
\* sends in flight and leaves them alone, and the exporter is back in its
\* loop at once.
C18_WebhookDispatch ==
  /\ [](Len(sendLog) = webhooks * Len(httpPopped))
  /\ [][ Pops =>
           /\ Len(sendLog') = Len(sendLog) + webhooks
           /\ \A w \in 1..webhooks :
                sendLog'[Len(sendLog) + w] =
                  [ev |-> Head(HttpEvents), wh |-> w, st |-> "running"]
           /\ \A i \in 1..Len(sendLog) : sendLog'[i] = sendLog[i]
           /\ sends \subseteq sends'
           /\ Cardinality(sends') = Cardinality(sends) + webhooks
           /\ httpExpPc' = "run"
       ]_vars

\* with two targets the exporter has popped a second event while both sends
\* of the first are still running
C18_Witness ==
  /\ webhooks = 2
  /\ Len(httpPopped) >= 2
  /\ Cardinality(sends) = 4
  /\ \A i \in 1..4 : sendLog[i].st = "running"

\* a send returns with a failure in this step
FailsAt(i) ==
  /\ i \in 1..Len(sendLog)
  /\ sendLog[i].st = "running"
  /\ i \in 1..Len(sendLog')
  /\ sendLog'[i].st \in Failures

\* C19: a failed delivery is dropped in isolation. Each (event, target) pair
\* is sent once and never again; when a send fails, no send is started, every
\* other send, finished or in flight, is as it was, and the exporter loop,
\* fan-out and the queues are unchanged and the process keeps running.
C19_DeliveryErrorIsolated ==
  /\ [](\A i, j \in 1..Len(sendLog) :
          (sendLog[i].ev = sendLog[j].ev /\ sendLog[i].wh = sendLog[j].wh) => i = j)
  /\ [][ \A i \in 1..Len(sendLog) : FailsAt(i) =>
           /\ Len(sendLog') = Len(sendLog)
           /\ \A j \in 1..Len(sendLog) : j # i => sendLog'[j] = sendLog[j]
           /\ sends' = sends \ { [ev |-> sendLog[i].ev, wh |-> sendLog[i].wh] }
           /\ UNCHANGED << queueVars, foVars, expVars, httpPopped, httpPlaced,
                           panicked, procExit, wg >>
       ]_vars
  /\ [][ \A i \in 1..Len(sendLog) :
           sendLog[i].st # "running" =>
             (i \in 1..Len(sendLog') /\ sendLog'[i] = sendLog[i]) ]_vars

\* with two targets, the send of the first event to the first target failed
\* on transport, its send to the second target succeeded, and the send of a
\* later event to the first target succeeded too
C19_Witness ==
  /\ webhooks = 2
  /\ Len(sendLog) >= 3
  /\ sendLog[1].st = "transport"
  /\ sendLog[2].st = "ok"
  /\ sendLog[3].st = "ok"
  /\ sendLog[3].wh = 1

\* ------------------------------------------- webhook exporter on its own
\* InitHTTPExporter called directly with a context, a queue and a wait
\* group of the caller's, as the package tests do
CallerInit ==
  /\ Alive
  /\ mgrPc = "init"
  /\ httpExpPc = "none"
  /\ client = NoClient
  /\ httpEnabled
  /\ InitHTTPExporter
  /\ UNCHANGED << conn, webhooks, sends, sendLog, targets, subs, msgs, heap,
                  entryVars,
                  mgrVars, cancelled, sigVars, queueVars, foVars,
                  grpcExpPc, srvVars, watchVars, tasks, wasmPlugins, procExit,
                  panicked, histVars >>

\* the caller puts an event on the queue: events <- ev
CallerSend ==
  /\ Alive
  /\ mgrPc = "init"
  /\ httpExpPc # "none"
  /\ "http" \notin closed
  /\ nextEv < MaxEvents
  /\ HasRoom(HttpEvents)
  /\ HttpEvents' = Append(HttpEvents, nextEv + 1)
  /\ nextEv' = nextEv + 1
  /\ UNCHANGED << auxVars, mgrVars, cancelled, sigVars, wg, ApiEvents,
                  GrpcEvents, closed, foVars, expVars, srvVars, watchVars,
                  tasks, wasmPlugins, procExit, panicked, histVars >>

\* the caller cancels the context: cancel()
CallerCancel ==
  /\ Alive
  /\ mgrPc = "init"
  /\ httpExpPc # "none"
  /\ RootCtx \notin cancelled
  /\ cancelled' = cancelled \cup {RootCtx}
  /\ UNCHANGED << auxVars, mgrVars, sigVars, wg, queueVars, foVars, expVars,
                  srvVars, watchVars, tasks, wasmPlugins, procExit, panicked,
                  histVars >>

\* the caller closes the queue: close(events)
CallerClose ==
  /\ Alive
  /\ mgrPc = "init"
  /\ httpExpPc # "none"
  /\ "http" \notin closed
  /\ closed' = closed \cup {"http"}
  /\ UNCHANGED << auxVars, mgrVars, cancelled, sigVars, wg, ApiEvents,
                  GrpcEvents, HttpEvents, nextEv, foVars, expVars, srvVars,
                  watchVars, tasks, wasmPlugins, procExit, panicked,
                  histVars >>

NextExporterUnit ==
  \/ CallerInit
  \/ CallerSend
  \/ CallerCancel
  \/ CallerClose
  \/ HttpExporterPop
  \/ HttpExporterCancel
  \/ HttpExporterClosed
  \/ Sends

\* the exporter on its own has no target or one, as in the package tests
InitExporterUnit == InitExporter /\ webhooks <= 1

SpecExporterUnit == InitExporterUnit /\ [][NextExporterUnit]_vars

\* the exporter goroutine is scheduled: a select with a ready case is taken,
\* and a case that stays ready is not passed over for ever
FairExporterUnit ==
  /\ SpecExporterUnit
  /\ WF_vars(HttpExporterPop)
  /\ WF_vars(HttpExporterCancel)
  /\ WF_vars(HttpExporterClosed)

\* C20: the HTTP exporter task terminates. Once the context is cancelled the
\* run loop returns, whether or not an event was ever pushed and whether or
\* not the queue is closed; it returns as well once its queue is closed; and
\* its return releases the wait group.
C20_ExporterTerminates ==
  /\ (httpExpPc = "run" /\ RootCtx \in cancelled) ~> (httpExpPc = "done")
  /\ (httpExpPc = "run" /\ "http" \in closed) ~> (httpExpPc = "done")
  /\ [][ (httpExpPc = "run" /\ httpExpPc' = "done") => wg' = wg - 1 ]_vars

\* the exporter returned on cancellation with no event ever pushed and the
\* queue open, and the wait group is released
C20_Witness ==
  /\ httpExpPc = "done"
  /\ RootCtx \in cancelled
  /\ nextEv = 0
  /\ "http" \notin closed
  /\ wg = 0

\* -------------------------------------------------- webhook TLS policies
\* the TLS blocks of the input set: skip-verify or not, no CA path, one of
\* two CA files or a missing file, and no key pair, one of two pairs, a
\* missing certificate file or a certificate path without a key path
TlsBlocks ==
  { [set |-> TRUE, skip |-> k, ca |-> a, cert |-> p[1], key |-> p[2]] :
      k \in BOOLEAN, a \in {"", "ca1", "ca2", "missing"},
      p \in { << "", "" >>, << "crt1", "key1" >>, << "crt2", "key2" >>,
              << "missing", "key1" >>, << "crt1", "" >> } }

\* the webhook targets of the input set
Targets ==
  { [https |-> TRUE, tls |-> t] : t \in TlsBlocks \cup {NoTls} }
    \cup { [https |-> FALSE, tls |-> t] :
             t \in { NoTls,
                     [set |-> TRUE, skip |-> TRUE, ca |-> "ca1",
                      cert |-> "crt1", key |-> "key1"],
                     [set |-> TRUE, skip |-> FALSE, ca |-> "missing",
                      cert |-> "", key |-> ""] } }

\* the exporter enabled with one or two targets of the input set, started by
\* a direct call of InitHTTPExporter
InitTls ==
  /\ InitProgram
  /\ cfg = [recv |-> "web", tag |-> 1]
  /\ httpEnabled
  /\ conn = NoConn
  /\ targets \in { << a >> : a \in Targets } \cup { << a, b >> : a, b \in Targets }
  /\ webhooks = Len(targets)
  /\ entry = NoEntry
  /\ apiEvent = NoEvent

NextTls ==
  \/ CallerInit
  \/ CallerSend
  \/ HttpExporterPop

SpecTls == InitTls /\ [][NextTls]_vars

\* a request has been sent to target w
SentTo(w) == \E i \in 1..Len(sendLog) : sendLog[i].wh = w

\* target w has an https URL and no TLS block
HttpsNoPolicy(w) == targets[w].https /\ ~targets[w].tls.set

\* the HTTPS targets that carry a TLS block
WithPolicy == { w \in 1..Len(targets) : targets[w].https /\ targets[w].tls.set }

\* C21: a request sent to a target with an https URL and no TLS block is made
\* with certificate verification enabled and the default trust roots,
\* whatever the TLS blocks of the other targets of the exporter.
C21_DefaultVerification ==
  \A w \in 1..Len(targets) :
    (HttpsNoPolicy(w) /\ SentTo(w)) =>
      (~client.skip /\ client.roots = {"default"})

\* C22: the TLS blocks are applied to the shared client. InsecureSkipVerify
\* is set exactly if an HTTPS target asks for it, every CA supplied by an
\* HTTPS target is trusted and every key pair supplied is presented, the
\* blocks of targets that are not https are ignored, and a file that cannot
\* be loaded is an error that leaves the exporter not started.
C22_PoliciesApplied ==
  LET cas == { targets[w].tls.ca : w \in WithPolicy } \ {""}
      pairs == { targets[w].tls.cert :
                   w \in { v \in WithPolicy : targets[v].tls.cert # ""
                                                /\ targets[v].tls.key # "" } }
      unloadable == Unreadable("missing") /\ ("missing" \in cas \/ "missing" \in pairs)
  IN  /\ client.built =>
           /\ client.skip = (\E w \in WithPolicy : targets[w].tls.skip)
           /\ cas \subseteq client.roots
           /\ cas = {} => client.roots = {"default"}
           /\ pairs = { client.certs[i] : i \in 1..Len(client.certs) }
           /\ ~unloadable
      /\ client.err => (unloadable /\ httpExpPc = "none" /\ wg = 0)
      /\ (client # NoClient /\ unloadable) => client.err

\* ---------------------------------------------------------------------
\* The gRPC exporter and its client streams: passive ingestion, fan-out,
\* the exporter's pop and the subscribers.
InitBroadcast == InitPipeline /\ ~httpEnabled

NextBroadcast ==
  \/ Startup
  \/ PassiveIngest
  \/ FanOut
  \/ GrpcExporterPop
  \/ Subscribers

SpecBroadcast == InitBroadcast /\ [][NextBroadcast]_vars

\* the gRPC exporter takes an event from its output queue in this step
GrpcPops == grpcPopped' # grpcPopped

\* C23: every event the gRPC exporter pops is put into the buffer of each
\* subscribed stream that has room and dropped for each subscribed stream
\* whose buffer is full, whatever the state of the other streams; and as long
\* as the exporter runs and its output queue holds an event the pop is
\* enabled, whoever has stopped reading or has disconnected.
C23_BroadcastIsolation ==
  /\ [][GrpcPops =>
          /\ Len(subs') = Len(subs)
          /\ \A i \in 1..Len(subs) :
               LET ev == Head(GrpcEvents)
               IN  /\ subs'[i].st = subs[i].st
                   /\ IF subs[i].st = "gone"
                        THEN subs'[i] = subs[i]
                      ELSE IF Len(subs[i].buf) < SubCap
                        THEN /\ subs'[i].buf = Append(subs[i].buf, ev)
                             /\ subs'[i].drops = subs[i].drops
                        ELSE /\ subs'[i].buf = subs[i].buf
                             /\ subs'[i].drops = subs[i].drops + 1]_vars
  /\ [](\A i \in 1..Len(subs) : Len(subs[i].buf) <= SubCap)
  /\ []((Alive /\ grpcExpPc = "run" /\ Len(GrpcEvents) > 0)
          => ENABLED GrpcExporterPop)

\* the first subscriber has stopped reading with a full buffer, the second
\* event was dropped for it and delivered to the second subscriber
C23_Witness ==
  /\ Len(subs) = 2
  /\ Len(grpcPopped) = 2
  /\ subs[1].st = "stalled"
  /\ subs[1].buf = << grpcPopped[1] >>
  /\ subs[1].drops = 1
  /\ subs[2].buf = << grpcPopped[2] >>

\* ---------------------------------------------------------------------
\* The pull-subscription receiver with decodable and undecodable messages,
\* fan-out and the shutdown.
NextAck ==
  \/ NextDrain
  \/ \E s \in 1..Len(tasks) : GcpBadMessage(s)

SpecAck == InitShutdown /\ [][NextAck]_vars

\* the callbacks of task s that have not returned
Pending(s) == { i \in 1..Len(msgs) : msgs[i].task = s /\ msgs[i].acks = 0 }

\* C24: as long as no goroutine has panicked, a message handed to the
\* callback has no acknowledgement while its callback is inside
\* processMessage (at the push of a decodable message) and exactly one once
\* the callback has returned, decodable or not; the event of an acknowledged
\* decodable message has been pushed onto the ingestion queue, the push being
\* made in the step that ends with the acknowledgement; no message gets a
\* second acknowledgement and none returns to the unacknowledged state.
C24_AckUnconditional ==
  /\ [](~panicked =>
          /\ \A i \in 1..Len(msgs) :
               /\ msgs[i].acks \in {0, 1}
               /\ msgs[i].acks = 0 => InFlight(msgs[i])
               /\ ~msgs[i].ok => msgs[i].ev = 0
               /\ (msgs[i].ok /\ msgs[i].acks = 1) =>
                    /\ msgs[i].ev \in 1..nextEv
                    /\ \A j \in 1..Len(msgs) : msgs[j].ev = msgs[i].ev => j = i
          /\ \A s \in 1..Len(tasks) : Cardinality(Pending(s)) = tasks[s].push)
  /\ [][\A i \in 1..Len(msgs) :
          /\ msgs'[i].acks >= msgs[i].acks
          /\ (msgs[i].acks = 0 /\ msgs'[i].acks = 1) =>
               /\ ApiEvents' = Append(ApiEvents, msgs'[i].ev)
               /\ msgs'[i].ev = nextEv + 1]_vars

\* a decodable and an undecodable message have both been acknowledged
C24_Witness ==
  /\ ~panicked
  /\ \E i, j \in 1..Len(msgs) :
       /\ msgs[i].ok /\ msgs[i].acks = 1 /\ msgs[i].ev \in 1..nextEv
       /\ ~msgs[j].ok /\ msgs[j].acks = 1

\* ---------------------------------------------------------------------
\* Both exporters behind fan-out: passive ingestion, fan-out, the pops of
\* the two exporters and the sends to at most one webhook target.
NextReadOnly ==
  \/ NextExporter
  \/ GrpcExporterPop

SpecReadOnly == InitExporterUnit /\ [][NextReadOnly]_vars

\* the elements of a sequence
Elems(q) == { q[i] : i \in 1..Len(q) }

\* C25: the fields of every event are at all times the fields its receiver
\* pushed; no step changes a field of an existing event; what fan-out holds
\* is the pointer it dequeued, what it appends to an output queue is the
\* pointer it holds, what an exporter pops is the head of its queue, and the
\* sends refer to popped events only.
C25_ReadOnlyEvents ==
  /\ [](/\ Len(heap) = nextEv
        /\ \A e \in 1..Len(heap) : heap[e] = APIEvent(e)
        /\ Elems(GrpcEvents) \cup Elems(HttpEvents) \subseteq Elems(deqHist)
        /\ Elems(deqHist) \subseteq 1..nextEv
        /\ \A i \in 1..Len(sendLog) : sendLog[i].ev \in Elems(httpPopped))
  /\ [][/\ \A e \in 1..Len(heap) : heap'[e] = heap[e]
        /\ deqHist' # deqHist =>
             foEv' = Head(ApiEvents) /\ deqHist' = Append(deqHist, foEv')
        /\ Len(GrpcEvents') > Len(GrpcEvents) =>
             GrpcEvents' = Append(GrpcEvents, foEv)
        /\ Len(HttpEvents') > Len(HttpEvents) =>
             HttpEvents' = Append(HttpEvents, foEv)
        /\ grpcPopped' # grpcPopped =>
             grpcPopped' = Append(grpcPopped, Head(GrpcEvents))
        /\ httpPopped' # httpPopped =>
             httpPopped' = Append(httpPopped, Head(HttpEvents))]_vars

\* an event has gone through both exporters, its send has returned, and its
\* fields are those that were pushed
C25_Witness ==
  \E i \in 1..Len(sendLog) :
    /\ sendLog[i].st = "ok"
    /\ sendLog[i].ev \in Elems(grpcPopped)
    /\ heap[sendLog[i].ev] = APIEvent(sendLog[i].ev)

\* ---------------------------------------------------------------------
\* Queue space: the pull-subscription receiver, fan-out and both exporters,
\* without cancellation.
NextBackpressure ==
  \/ Startup
  \/ FanOut
  \/ Exporters
  \/ \E s \in 1..Len(tasks) : GcpStart(s)
  \/ \E s \in 1..Len(tasks) : GcpMessage(s)
  \/ \E s \in 1..Len(tasks) : GcpPush(s)

SpecBackpressure == InitShutdown /\ [][NextBackpressure]_vars

\* a callback of task s is at "apiEvents <- apiEvent"
AtPush(s) == Alive /\ tasks[s].kind = "gcp" /\ tasks[s].push > 0

\* C26: a receiver's push onto the ingestion queue can be taken exactly when
\* the queue holds fewer events than its capacity, so it waits exactly while
\* the queue is full, and it can be taken in the state that follows a
\* dequeue by fan-out; the two sends of fan-out can be taken whatever the
\* output queues hold, the dequeue of fan-out and the pops of the exporters
\* whenever their queue holds an event, and handing a message to the
\* callback does not depend on any queue.
C26_SingleBackpressurePoint ==
  /\ [](\A s \in 1..Len(tasks) :
          AtPush(s) => (ENABLED GcpPush(s) <=> Len(ApiEvents) < QueueCap))
  /\ [][\A s \in 1..Len(tasks) :
          (AtPush(s) /\ deqHist' # deqHist) => (ENABLED GcpPush(s))']_vars
  /\ []((Alive /\ foPc = "grpc") => ENABLED FanOutSendGrpc)
  /\ []((Alive /\ foPc = "http") => ENABLED FanOutSendHttp)
  /\ []((Alive /\ foPc = "select" /\ Len(ApiEvents) > 0) => ENABLED FanOutRecv)
  /\ []((Alive /\ grpcExpPc = "run" /\ Len(GrpcEvents) > 0)
          => ENABLED GrpcExporterPop)
  /\ []((Alive /\ httpExpPc = "run" /\ Len(HttpEvents) > 0)
          => ENABLED HttpExporterPop)
  /\ [](\A s \in 1..Len(tasks) :
          (Alive /\ tasks[s].kind = "gcp" /\ tasks[s].pc = "receive"
             /\ tasks[s].push < MaxCallbacks /\ MoreEvents)
          => ENABLED GcpMessage(s))

\* a callback waits at the push with the ingestion queue full
C26_Witness ==
  /\ \E s \in 1..Len(tasks) : AtPush(s) /\ ~ENABLED GcpPush(s)
  /\ Len(ApiEvents) = QueueCap

\* ---------------------------------------------------------------------
\* The Kong receiver in the running pipeline: passive ingestion, fan-out,
\* both exporters and one reload to a Kong configuration.
InitKong == Init /\ cfg.recv = "kong" /\ NoWebhooks

NextKong ==
  \/ Startup
  \/ FanOut
  \/ Exporters
  \/ PassiveIngest
  \/ Kong
  \/ ConfigChangeTo(ReloadTargets)
  \/ RunReload

SpecKong == InitKong /\ [][NextKong]_vars

\* the validation of the Kong receiver of scope s has failed
KongFailed(s) == tasks[s].kind = "kong" /\ tasks[s].err # "nil"

\* everything a step of the Kong receiver of scope s must leave alone
KongFrame(s) ==
  /\ UNCHANGED << mgrVars, cancelled, sigVars, queueVars, foVars, expVars,
                  srvVars, watchVars, procExit, panicked, histVars, heap >>
  /\ \A t \in 1..Len(tasks) : t # s => tasks'[t] = tasks[t]

\* C27: a Kong receiver whose validation has failed has returned, with the
\* cause recorded, whether or not its scope is cancelled; a returned receiver
\* never runs again in its scope; the start can be taken without any
\* cancellation; a step of a Kong receiver changes nothing but its own task
\* and the wait group, so it pushes no event, cancels no context and ends
\* nothing else; a receiver whose validation succeeded leaves
\* "<-ctx.Done()" only when its scope is cancelled, and can leave it then.
C27_KongValidationFatal ==
  /\ [](\A s \in 1..Len(tasks) :
          /\ KongFailed(s) =>
               /\ tasks[s].pc = "done"
               /\ tasks[s].err \in { validateResources("", TRUE),
                                     validateResources("kong", FALSE) }
          /\ (Alive /\ tasks[s].kind = "kong" /\ tasks[s].pc = "start")
               => ENABLED KongStart(s)
          /\ (Alive /\ tasks[s].kind = "kong" /\ tasks[s].pc = "blocked"
                 /\ ScopeDone(s)) => ENABLED KongStop(s))
  /\ [][\A s \in 1..Len(tasks) :
          tasks[s].kind = "kong" =>
            /\ tasks[s].pc = "done" => tasks'[s] = tasks[s]
            /\ tasks'[s] # tasks[s] =>
                 /\ KongFrame(s)
                 /\ wg' = IF tasks'[s].pc = "done" THEN wg - 1 ELSE wg
            /\ (tasks[s].pc = "blocked" /\ tasks'[s].pc # "blocked") =>
                 (ScopeDone(s) /\ tasks'[s].pc = "done" /\ tasks'[s].err = "nil")]_vars

\* the validation failed and the receiver returned while its scope is not
\* cancelled, and afterwards an event went through fan-out to an exporter
C27_Witness ==
  /\ Alive
  /\ Len(tasks) = 1
  /\ KongFailed(1) /\ tasks[1].pc = "done" /\ ~ScopeDone(1)
  /\ cancelled = {}
  /\ foPc = "select" /\ grpcExpPc = "run"
  /\ Len(grpcPopped) > 0

\* ---------------------------------------------------------------------
\* fanOutAPIEvents on its own: a caller starts it on three queues, sends
\* events, cancels the context and closes the ingestion queue, in any
\* order; nothing reads the output queues.
FanOutCallerStart ==
  /\ Alive
  /\ mgrPc = "init"
  /\ foPc = "none"
  /\ foPc' = "select"
  /\ wg' = wg + 1
  /\ UNCHANGED << auxVars, mgrVars, cancelled, sigVars, queueVars, foEv, stats,
                  expVars, srvVars, watchVars, tasks, wasmPlugins, procExit,
                  panicked, histVars >>

\* the caller sends an event: in <- ev
FanOutCallerSend ==
  /\ Alive
  /\ mgrPc = "init"
  /\ "api" \notin closed
  /\ nextEv < MaxEvents
  /\ PushApiEvent
  /\ UNCHANGED << conn, webhooks, sends, sendLog, tlsVars, entryVars, subs, msgs, mgrVars,
                  cancelled, sigVars, wg, foVars, expVars, srvVars, watchVars,
                  tasks, wasmPlugins, procExit, histVars >>

\* the caller cancels the context: cancel()
FanOutCallerCancel ==
  /\ Alive
  /\ mgrPc = "init"
  /\ RootCtx \notin cancelled
  /\ cancelled' = cancelled \cup {RootCtx}
  /\ UNCHANGED << auxVars, mgrVars, sigVars, wg, queueVars, foVars, expVars,
                  srvVars, watchVars, tasks, wasmPlugins, procExit, panicked,
                  histVars >>

\* the caller closes the ingestion queue: close(in)
FanOutCallerClose ==
  /\ Alive
  /\ mgrPc = "init"
  /\ "api" \notin closed
  /\ closed' = closed \cup {"api"}
  /\ UNCHANGED << auxVars, mgrVars, cancelled, sigVars, wg, ApiEvents,
                  GrpcEvents, HttpEvents, nextEv, foVars, expVars, srvVars,
                  watchVars, tasks, wasmPlugins, procExit, panicked,
                  histVars >>

NextFanOutUnit ==
  \/ FanOutCallerStart
  \/ FanOutCallerSend
  \/ FanOutCallerCancel
  \/ FanOutCallerClose
  \/ FanOut
  \/ FanOutCancel

SpecFanOutUnit == InitPipeline /\ [][NextFanOutUnit]_vars

\* the goroutine of fan-out is scheduled, and a select whose cancellation
\* case stays ready takes it in the end; the caller is not assumed to act
FairFanOutUnit ==
  /\ SpecFanOutUnit
  /\ WF_vars(FanOutRecv)
  /\ WF_vars(FanOutSendGrpc)
  /\ WF_vars(FanOutSendHttp)
  /\ WF_vars(FanOutCancel)

\* fan-out has been started and has not returned
FanOutRuns == foPc \notin {"none", "done"}

FanOutEffects == << deqHist, GrpcEvents, HttpEvents, grpcPlaced, httpPlaced, stats >>

\* C29 as stated: from the moment the context of fan-out is cancelled,
\* fan-out dequeues nothing, places nothing on an output queue and counts
\* nothing.
C29_NoDrainAfterCancel ==
  [][(RootCtx \in cancelled) => UNCHANGED FanOutEffects]_vars

\* C29, amended: at its select with the context cancelled fan-out can return
\* whatever the ingestion queue holds; once it has returned it dequeues
\* nothing, places nothing and counts nothing, so the events then on the
\* ingestion queue stay there, are on no output queue and in no counter (the
\* received counter is the number of dequeued events and every event was
\* dequeued or is still on the ingestion queue or was not pushed yet).
C29_NoDrainAfterReturn ==
  /\ []((Alive /\ foPc = "select" /\ RootCtx \in cancelled)
          => ENABLED FanOutCancel)
  /\ [][foPc = "done" =>
          /\ UNCHANGED FanOutEffects
          /\ IsSubseq(ApiEvents, ApiEvents')]_vars
  /\ [](/\ stats.inCount = Len(deqHist)
        /\ Elems(deqHist) \cap Elems(ApiEvents) = {}
        /\ Elems(GrpcEvents) \cup Elems(HttpEvents) \subseteq Elems(deqHist)
        /\ stats.grpcDrop + Len(grpcPlaced) = Len(deqHist) - (IF foPc = "grpc" THEN 1 ELSE 0)
        /\ stats.httpDrop + Len(httpPlaced)
             = Len(deqHist) - (IF foPc \in {"grpc", "http"} THEN 1 ELSE 0))

\* fan-out dequeued an event after the cancellation and then returned with
\* another event left on the ingestion queue, which no counter includes
C29_Witness ==
  /\ foPc = "done"
  /\ RootCtx \in cancelled
  /\ "api" \notin closed
  /\ Len(ApiEvents) = 1
  /\ stats.inCount = nextEv - 1
  /\ stats.inCount > 0

\* the receiver task of scope s is in its start phase (started, not yet at
\* its wait) or in its teardown phase (its scope is cancelled and it has not
\* returned)
InTransition(s) ==
  /\ tasks[s].kind \in TaskKinds
  /\ \/ tasks[s].pc = "start"
     \/ tasks[s].pc \notin {"none", "done"} /\ ScopeDone(s)

\* C30: at every moment at most one receiver set has a task inside its
\* start or teardown phase, and it is the set of the most recent
\* configuration.
C30_LifecycleExclusive ==
  \A s \in 1..Len(tasks) : InTransition(s) => s = CurScope

\* ---------------------------------------------------------------------
\* The phases of Manager.run: INIT is every position before the loop,
\* RUNNING the loop, RELOADING_RECEIVERS the reload branch (one step),
\* DRAINING the wait for the tasks, STOPPED the return after the close.
\* a step of the reload branch: a receiver set is started after the first
StartsNewSet == Len(tasks) >= 1 /\ Len(tasks') > Len(tasks)

\* C31: a reload is handled only in RUNNING and leads back to RUNNING (or to
\* the return on an error); once the root scope is cancelled no
\* configuration-change event is taken from the channel and no receiver set
\* is started by a reload; RUNNING is left only for DRAINING or an error
\* return, DRAINING only for STOPPED, and STOPPED is never left.
C31_OrchestratorPhases ==
  [][/\ StartsNewSet => (mgrPc = "running" /\ mgrPc' \in {"running", "returned"})
     /\ (RootCtx \in cancelled) =>
          (~StartsNewSet /\ (watcherPc = "sending" => watcherPc' = "sending"))
     /\ (mgrPc = "running" /\ mgrPc' # "running") =>
          (mgrPc' \in {"waiting", "returned"})
     /\ (mgrPc = "waiting" /\ mgrPc' # "waiting") => mgrPc' = "stopped"
     /\ mgrPc = "stopped" => mgrPc' = "stopped"]_vars

\* C32: fan-out is started before the exporters, the exporters before the
\* initial receiver set, the receiver set before the two servers; and no
\* event is pushed onto the ingestion queue while fan-out has not been
\* started.
C32_StartupOrder ==
  /\ grpcExpPc # "none" => foPc # "none"
  /\ httpExpPc # "none" => foPc # "none"
  /\ Len(tasks) > 0 => (foPc # "none" /\ grpcExpPc # "none")
  /\ (httpSrvPc # "none" \/ grpcSrvPc # "none") =>
       (foPc # "none" /\ grpcExpPc # "none" /\ Len(tasks) > 0)
  /\ nextEv > 0 => foPc # "none"

\* a task under the root scope has been started and has not returned
RootTaskRuns ==
  \/ httpSrvPc = "serving" \/ grpcSrvPc = "serving"
  \/ foPc \notin {"none", "done"}
  \/ grpcExpPc = "run" \/ httpExpPc = "run"

\* C33: when Manager.run has returned on an error, every task it started
\* has returned or has had its scope cancelled: the root scope for the
\* servers, fan-out and the exporters, its own scope for a receiver.
C33_StartupErrorCancels ==
  mgrPc = "returned" =>
    /\ RootTaskRuns => RootCtx \in cancelled
    /\ \A s \in 1..Len(tasks) :
         (tasks[s].kind \in TaskKinds /\ tasks[s].pc # "done") => ScopeDone(s)

\* C34, pull subscription: of two messages that one subscription handed to
\* its callback and whose events both are on the ingestion queue or beyond,
\* the one received first was pushed first (events are numbered in the
\* order of their push).
C34_SourceOrder ==
  \A i, j \in 1..Len(msgs) :
    (i < j /\ msgs[i].task = msgs[j].task /\ msgs[i].ev # 0 /\ msgs[j].ev # 0)
      => msgs[i].ev < msgs[j].ev

\* the messages for which an event has been pushed
Pushed == { i \in 1..Len(msgs) : msgs[i].ev # 0 }

\* C35: the step in which the callback gets an undecodable message leaves
\* the ingestion queue and the count of pushed events as they are, and no
\* event is ever recorded for such a message; every event pushed belongs to
\* exactly one decodable message, and a decodable message whose callback has
\* returned has exactly one event.
C35_UndecodableDiscarded ==
  /\ [][(Len(msgs') > Len(msgs) /\ ~msgs'[Len(msgs')].ok) =>
          (ApiEvents' = ApiEvents /\ nextEv' = nextEv /\ heap' = heap)]_vars
  /\ [](~panicked =>
          /\ \A i \in 1..Len(msgs) : ~msgs[i].ok => i \notin Pushed
          /\ \A i \in 1..Len(msgs) :
               (msgs[i].ok /\ ~InFlight(msgs[i])) => i \in Pushed
          /\ Cardinality(Pushed) = nextEv
          /\ { msgs[i].ev : i \in Pushed } = 1..nextEv)

\* an undecodable message was received and discarded between two decodable
\* ones, and exactly the two decodable ones have an event
C35_Witness ==
  /\ ~panicked
  /\ Len(msgs) = 3
  /\ msgs[1].ok /\ ~msgs[2].ok /\ msgs[3].ok
  /\ Pushed = {1, 3}
  /\ nextEv = 2

\* ---------------------------------------------------------------------
\* processMessage from the decoded entry to the event (lines 109-153).
\* a hostname that prefers the reported API name to the service label
hostnameApiFirst(e) ==
  IF e.apiName # "" THEN e.apiName
  ELSE IF "service" \in DOMAIN e.labels /\ e.labels["service"] # ""
    THEN e.labels["service"]
  ELSE "gcp-api-gateway"

\* lines 113-118: the service label if present and not empty, else the
\* API name if not empty, else the placeholder
hostname(e) ==
  IF "service" \in DOMAIN e.labels /\ e.labels["service"] # ""
    THEN e.labels["service"]
  ELSE IF e.apiName # "" THEN e.apiName
  ELSE "gcp-api-gateway"

\* lines 121-148: the event built from the entry (the timestamp, the time of
\* the call, is left out)
buildEvent(e) ==
  [receiver |-> "GCPAPIGateway",
   request |-> [method |-> e.method, authority |-> hostname(e),
                path |-> e.url, userAgent |-> e.userAgent],
   response |-> [status |-> ToString(e.status)],
   source |-> [ip |-> e.remoteIp],
   destination |-> [ip |-> e.serverIp, name |-> e.apiName,
                    namespace |-> e.location],
   protocol |-> "HTTP"]

\* resource.labels of an entry: without the key "service", with an empty
\* one, with a value, alone or next to another label
LabelMaps ==
  { << >>, [k \in {"location"} |-> "us"] }
  \cup { [k \in {"service"} |-> v] : v \in {"", "svc.cloud.goog"} }
  \cup { [k \in {"service", "location"} |-> IF k = "service" THEN v ELSE "us"] :
            v \in {"", "svc.cloud.goog"} }

\* the decoded entries
Entries ==
  [labels : LabelMaps, apiName : {"", "orders", "gcp-api-gateway"},
   method : {"GET", "POST"}, url : {"/v1/orders"}, userAgent : {"curl"},
   status : {200, 404}, remoteIp : {"10.0.0.1"}, serverIp : {"10.0.0.2"},
   location : {"", "us-central1"}]

InitEntry ==
  /\ InitProgram
  /\ cfg = [recv |-> "gcp", tag |-> 1]
  /\ httpEnabled = FALSE
  /\ webhooks = 0
  /\ targets = << >>
  /\ conn = NoConn
  /\ entry \in Entries
  /\ apiEvent = NoEvent

\* processMessage builds the event of the entry
ProcessEntry ==
  /\ apiEvent = NoEvent
  /\ apiEvent' = buildEvent(entry)
  /\ UNCHANGED << conn, webhooks, sends, sendLog, tlsVars, subs, msgs, heap,
                  entry, mgrVars, cancelled, sigVars, wg, queueVars, foVars,
                  expVars, srvVars, watchVars, tasks, wasmPlugins, procExit,
                  panicked, histVars >>

SpecEntry == InitEntry /\ [][ProcessEntry]_vars

\* C36: the :authority request header of the event built from an entry is
\* the resource label "service" when the entry has that label and it is not
\* empty, otherwise the API name when that is not empty, otherwise
\* "gcp-api-gateway".
C36_HostnameFallback ==
  apiEvent # NoEvent =>
    LET hasService == \E k \in DOMAIN entry.labels :
                        k = "service" /\ entry.labels[k] # ""
    IN  /\ hasService => apiEvent.request.authority = entry.labels["service"]
        /\ (~hasService /\ entry.apiName # "") =>
             apiEvent.request.authority = entry.apiName
        /\ (~hasService /\ entry.apiName = "") =>
             apiEvent.request.authority = "gcp-api-gateway"

\* an entry with an empty service label and an API name: the event carries
\* the API name
C36_Witness ==
  /\ apiEvent # NoEvent
  /\ "service" \in DOMAIN entry.labels
  /\ entry.labels["service"] = ""
  /\ entry.apiName = "orders"
  /\ apiEvent.request.authority = "orders"

\* C37: whenever fan-out is between two steps (at its select, or returned),
\* the received counter is the number of events it has dequeued and, for
\* each output, the number of events ever placed on that output queue plus
\* that output's drop counter; and no counter ever decreases.
C37_FanOutAccounting ==
  /\ [](foPc \in {"select", "done"} =>
          /\ stats.inCount = Len(deqHist)
          /\ stats.inCount = Len(grpcPlaced) + stats.grpcDrop
          /\ stats.inCount = Len(httpPlaced) + stats.httpDrop)
  /\ [][/\ stats'.inCount >= stats.inCount
         /\ stats'.grpcDrop >= stats.grpcDrop
         /\ stats'.httpDrop >= stats.httpDrop]_vars

\* three events went through fan-out; one was dropped for the gRPC output
\* only
C37_Witness ==
  /\ foPc = "select"
  /\ stats = [inCount |-> 3, grpcDrop |-> 1, httpDrop |-> 0]
  /\ Len(grpcPlaced) = 2
  /\ Len(httpPlaced) = 3

\* the smaller of two numbers
Min(a, b) == IF a < b THEN a ELSE b

\* C38: with the HTTP exporter disabled no task is started for it and
\* nothing is ever taken from the HTTP output queue, while fan-out still
\* sends to it: the queue holds the first QueueCap events and every later
\* one is an HTTP drop; fan-out is never blocked at either send or at its
\* receive, and the send to the gRPC output queue depends on that queue's
\* room only.
C38_DisabledHttpNoStall ==
  /\ [](~httpEnabled =>
          /\ httpExpPc = "none"
          /\ httpPopped = << >>
          /\ HttpEvents = httpPlaced
          /\ foPc \in {"select", "done"} =>
                /\ Len(HttpEvents) = Min(QueueCap, stats.inCount)
                /\ stats.httpDrop = stats.inCount - Len(HttpEvents))
  /\ []((~httpEnabled /\ Alive /\ foPc = "http") => ENABLED FanOutSendHttp)
  /\ []((~httpEnabled /\ Alive /\ foPc = "grpc") => ENABLED FanOutSendGrpc)
  /\ []((~httpEnabled /\ Alive /\ foPc = "select" /\ Len(ApiEvents) > 0)
          => ENABLED FanOutRecv)
  /\ [][(~httpEnabled /\ foPc = "http" /\ foPc' # "http"
           /\ Len(HttpEvents) = QueueCap) =>
          /\ stats'.httpDrop = stats.httpDrop + 1
          /\ HttpEvents' = HttpEvents]_vars
  /\ [][(~httpEnabled /\ foPc = "grpc" /\ foPc' # "grpc") =>
          GrpcEvents' = IF Len(GrpcEvents) < QueueCap
                          THEN Append(GrpcEvents, foEv) ELSE GrpcEvents]_vars

\* the exporter is disabled, the HTTP output queue is full, the third
\* event was dropped for it and all three events were placed on the gRPC
\* output queue
C38_Witness ==
  /\ ~httpEnabled
  /\ foPc = "select"
  /\ Len(HttpEvents) = QueueCap
  /\ stats.httpDrop = 1
  /\ stats.grpcDrop = 0
  /\ Len(grpcPlaced) = 3

\* ---------------------------------------------------------------------
\* The configuration watcher: one change of the file, accepted or not,
\* with signals and the shutdown.
NextWatch ==
  \/ NextSignals
  \/ ConfigChangeRejected

SpecWatch == InitSignals /\ [][NextWatch]_vars

\* the callback has run on a file it did not accept
Rejected == changes' # changes /\ watcherPc' = "idle"

\* C39: a configuration file that fails to load or validate changes
\* nothing in the orchestrator, the receiver scopes, the tasks or the
\* process; an accepted one is taken by the orchestrator's loop, which
\* cancels the current receiver scope; and the callback is never left
\* blocked on its send with the orchestrator gone or the process panicked.
C39_InvalidConfigNoReload ==
  /\ [][Rejected =>
          UNCHANGED << mgrVars, cancelled, sigVars, wg, queueVars, foVars,
                       expVars, srvVars, watcherPc, tasks, procExit,
                       panicked >>]_vars
  /\ [][(watcherPc = "sending" /\ watcherPc' # "sending") =>
          (mgrPc = "running" /\ cancelled' = cancelled \cup {CurScope})]_vars
  /\ [](watcherPc = "sending" =>
          (~panicked /\ mgrPc \notin {"returned", "stopped"}))

\* the distance between two numbers
BigDist(a, b) == IF BigLess(a, b) THEN BigSub(b, a) ELSE BigSub(a, b)

\* C40: the latency of an event never exceeds the distance between the
\* line's request time and response time, in nanoseconds: a response time
\* below the request time does not make it wrap to a value near 2^64.
C40_LatencyInRange ==
  LET q == Value(conn.built.fields[11])
      r == Value(conn.built.fields[12])
  IN  (LineRead /\ conn.ev.out = "event") =>
        ~BigLess(MulMillionExact(BigDist(q, r)), conn.ev.latency)

====
